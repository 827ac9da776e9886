---------------------------- MODULE ClientCaches ----------------------------
(***************************************************************************)
(* What the clients of one process share: channels by address and          *)
(* settings, and descriptor pools by where they come from.                 *)
(*                                                                         *)
(* A new client takes the channel of its configuration or creates it, then *)
(* takes its descriptor pool or loads it: from a file, or by asking the    *)
(* server, one reflection request at a time, under one mutex for the whole *)
(* process.  Locks are released at every await, so between a look-up and   *)
(* the insertion that follows it other clients run.                        *)
(***************************************************************************)
EXTENDS Naturals, SequencesExt

CONSTANTS
    Clients,
    Configs,        \* the configurations clients are made with
    MaxCalls,       \* bound: clients a task makes, one after the other
    MaxFailures,    \* bound: reflection requests that fail
    MaxEntries,     \* CHANNEL_CACHE_MAX_ENTRIES
    Files,          \* files of a server's schema
    FileOf,         \* the file that defines a service
    Dependencies    \* the files a file imports, in order

Services == DOMAIN FileOf

\* channel and pool are the keys of the caches.  A pool comes from a file, or from the
\* server: one service (target) or all it lists; it looks up the symbols it answers.
Config == [channel : STRING, pool : STRING, address_ok : BOOLEAN, settings_ok : BOOLEAN,
           source : {"file", "bad_file", "reflection"},
           target : SUBSET Services, listed : Seq(Services), answers : SUBSET Services]

ASSUME CachesAssumption ==
    /\ Configs # {}
    /\ \A c \in Configs : DOMAIN c = {"channel", "pool", "address_ok", "settings_ok", "source",
                                      "target", "listed", "answers"}
    /\ \A c \in Configs : c.listed \in Seq(Services) /\ c.target \subseteq Services
    /\ MaxEntries \in Nat \ {0} /\ MaxCalls \in Nat /\ MaxFailures \in Nat
    /\ IsFiniteSet(Files) /\ Files \cap Services = {}
    /\ FileOf \in [Services -> Files]
    /\ Dependencies \in [Files -> Seq(Files)]

\* A client has one target or none, and the key of a pool names its file, or the address
\* of its server and the target; what the server lists and answers goes by the address.
ASSUME PoolKeyAssumption ==
    /\ \A c \in Configs : \A s, u \in c.target : s = u
    /\ \A c, d \in Configs : c.pool = d.pool /\ c.source = "reflection" =>
            /\ d.source = "reflection" /\ d.target = c.target
            /\ d.listed = c.listed /\ d.answers = c.answers

VARIABLES
    channels,       \* CHANNEL_CACHE: its keys
    pools,          \* DESCRIPTOR_CACHE: its keys with the files of their pools
    loading,        \* the client that holds DESCRIPTOR_LOAD_MUTEX, if any
    pc, config, calls,
    files_to_process, processed, asked_all,     \* of the client that loads
    failures, missed,           \* requests that failed; one did in this load
    loads, losses               \* history: successful loads of each pool; those that missed

client == <<pc, config, calls>>
fetch == <<files_to_process, processed, asked_all, missed>>
vars == <<channels, pools, loading, client, fetch, failures, loads, losses>>

Keys(field) == {c[field] : c \in Configs}

Init ==
    /\ channels = {} /\ pools = [k \in {} |-> {}] /\ loading = {}
    /\ pc = [t \in Clients |-> "idle"]
    /\ config = [t \in Clients |-> CHOOSE c \in Configs : TRUE]
    /\ calls = [t \in Clients |-> 0]
    /\ files_to_process = <<>> /\ processed = {} /\ asked_all = FALSE /\ missed = FALSE
    /\ failures = 0
    /\ loads = [k \in Keys("pool") |-> 0] /\ losses = {}

Goto(t, place) == pc' = [pc EXCEPT ![t] = place]

\* The client is made, or the error is returned.
Return(t, result) == Goto(t, result)

-----------------------------------------------------------------------------
(* Channels                                                                *)

New(t, c) ==
    /\ pc[t] \in {"idle", "made", "failed"} /\ calls[t] < MaxCalls
    /\ config' = [config EXCEPT ![t] = c] /\ calls' = [calls EXCEPT ![t] = @ + 1]
    /\ IF c.address_ok THEN Goto(t, "channel") ELSE Return(t, "failed")
    /\ UNCHANGED <<channels, pools, loading, fetch, failures, loads, losses>>

\* A client that loads by reflection asks for its channel once more.
after_channel(t) == IF t \in loading THEN "seed" ELSE "pool"

GetChannel(t) ==
    /\ pc[t] = "channel"
    /\ Goto(t, IF config[t].channel \in channels THEN after_channel(t) ELSE "create")
    /\ UNCHANGED <<channels, pools, loading, config, calls, fetch, failures, loads, losses>>

\* Variant: the mutex stays locked.
KeptLocked(t) == loading

released(t) == loading \ {t}

\* An error leaves the load, and its mutex, behind.
Fail(t) == Return(t, "failed") /\ loading' = released(t)

\* Variant: the bound is checked one entry too late.
ClearedLate(held) == IF Cardinality(held) > MaxEntries THEN {} ELSE held

with_room(held) == IF Cardinality(held) >= MaxEntries THEN {} ELSE held

CreateChannel(t) ==
    /\ pc[t] = "create"
    /\ \/ config[t].settings_ok /\ Goto(t, after_channel(t))
          /\ channels' = with_room(channels) \cup {config[t].channel}
          /\ UNCHANGED loading
       \/ ~config[t].settings_ok /\ Fail(t) /\ UNCHANGED channels
    /\ UNCHANGED <<pools, config, calls, fetch, failures, loads, losses>>

-----------------------------------------------------------------------------
(* Descriptor pools                                                        *)

key(t) == config[t].pool

GetPool(t) ==
    /\ pc[t] = "pool"
    /\ IF key(t) \in DOMAIN pools THEN Return(t, "made") ELSE Goto(t, "lock")
    /\ UNCHANGED <<channels, pools, loading, config, calls, fetch, failures, loads, losses>>

\* Variant: what another client loaded meanwhile is not looked up again.
NotLookedUpAgain(t) == FALSE

loaded_meanwhile(t) == key(t) \in DOMAIN pools

\* The mutex, and the second look-up under it.
Lock(t) ==
    /\ pc[t] = "lock" /\ loading = {}
    /\ \/ loaded_meanwhile(t) /\ Return(t, "made") /\ UNCHANGED loading
       \/ ~loaded_meanwhile(t) /\ loading' = {t} /\ Goto(t, "load")
    /\ UNCHANGED <<channels, pools, config, calls, fetch, failures, loads, losses>>

Insert(t, files) ==
    /\ pools' = [k \in DOMAIN pools \cup {key(t)} |-> IF k = key(t) THEN files ELSE pools[k]]
    /\ loads' = [loads EXCEPT ![key(t)] = @ + 1]
    /\ loading' = released(t) /\ Return(t, "made")

LoadFile(t) ==
    /\ pc[t] = "load"
    /\ \/ config[t].source = "file" /\ Insert(t, Files)
       \/ config[t].source = "bad_file" /\ Fail(t) /\ UNCHANGED <<pools, loads>>
       \/ config[t].source = "reflection" /\ Goto(t, "channel") /\ UNCHANGED <<pools, loads, loading>>
    /\ UNCHANGED <<channels, config, calls, fetch, failures, losses>>

-----------------------------------------------------------------------------
(* Reflection                                                              *)

MayFail == failures < MaxFailures

\* Variant: all the server lists, whatever the target.
AllListed(t) == config[t].listed

targeted(t) == SetToSeq(config[t].target)

\* The services to start from: the target, or all the server lists; none if that fails.
Seed(t) ==
    /\ pc[t] = "seed"
    /\ UNCHANGED processed
    /\ \/ /\ config[t].target # {}
          /\ files_to_process' = targeted(t)
          /\ asked_all' = FALSE /\ missed' = FALSE /\ UNCHANGED failures
       \/ /\ config[t].target = {}
          /\ files_to_process' = config[t].listed
          /\ asked_all' = TRUE /\ missed' = FALSE /\ UNCHANGED failures
       \/ /\ config[t].target = {} /\ MayFail
          /\ files_to_process' = <<>>
          /\ asked_all' = TRUE /\ missed' = TRUE /\ failures' = failures + 1
    /\ Goto(t, "fetch")
    /\ UNCHANGED <<channels, pools, loading, config, calls, loads, losses>>

ClosedUnderImport(files) == \A f \in files : Range(Dependencies[f]) \subseteq files

\* Files and all they import: the least closed set they are in.
Imported(files) ==
    {f \in Files : \A S \in SUBSET Files : files \subseteq S /\ ClosedUnderImport(S) => f \in S}

\* A server answers with the file asked for, or with all it imports too; a symbol it
\* does not look up, with no file.
Replies(t, name) ==
    IF name \in Files THEN {<<name>>, <<name>> \o SetToSeq(Imported({name}) \ {name})}
    ELSE IF name \in config[t].answers
         THEN {<<FileOf[name]>>, <<FileOf[name]>> \o SetToSeq(Imported({FileOf[name]}) \ {FileOf[name]})}
         ELSE {<<>>}

push(stack, d, done) == IF d \in done THEN stack ELSE Append(stack, d)

\* The stack with the files that f imports on top, those at hand left out.
with_dependencies(stack, f, done) ==
    LET pushed[n \in 0..Len(Dependencies[f])] ==
            IF n = 0 THEN stack ELSE push(pushed[n - 1], Dependencies[f][n], done)
    IN  pushed[Len(Dependencies[f])]

\* A file of a reply: kept once, and the files it imports are asked for.
Keep(work, f) ==
    IF f \in work.done THEN work
    ELSE [done |-> work.done \cup {f}, stack |-> with_dependencies(work.stack, f, work.done \cup {f})]

\* The files of a reply, one after the other.
KeepAll(work, reply) ==
    LET kept[n \in 0..Len(reply)] == IF n = 0 THEN work ELSE Keep(kept[n - 1], reply[n])
    IN  kept[Len(reply)]

\* One request for the name on top of the stack; a failed one is passed over.
Fetch(t) ==
    /\ pc[t] = "fetch" /\ files_to_process # <<>>
    /\ LET name == Last(files_to_process)
           rest == Front(files_to_process)
       IN  \/ name \in processed /\ files_to_process' = rest
              /\ UNCHANGED <<processed, failures, missed>>
           \/ name \notin processed
              /\ \E reply \in Replies(t, name) :
                    LET work == KeepAll([done |-> processed, stack |-> rest], reply)
                    IN  processed' = work.done /\ files_to_process' = work.stack
              /\ UNCHANGED <<failures, missed>>
           \/ name \notin processed /\ MayFail
              /\ failures' = failures + 1 /\ missed' = TRUE
              /\ files_to_process' = rest /\ UNCHANGED processed
    /\ UNCHANGED <<channels, pools, loading, client, asked_all, loads, losses>>

\* A targeted fetch that came back empty is retried over the full list.
FetchAll(t) ==
    /\ pc[t] = "fetch" /\ files_to_process = <<>> /\ processed = {} /\ ~asked_all
    /\ \/ files_to_process' = config[t].listed /\ UNCHANGED <<failures, missed>>
       \/ MayFail /\ failures' = failures + 1 /\ missed' = TRUE /\ UNCHANGED files_to_process
    /\ asked_all' = TRUE
    /\ UNCHANGED <<channels, pools, loading, client, processed, loads, losses>>

\* A pool is built of the files, each of whose imports must be among them.
Build(t) ==
    /\ pc[t] = "fetch" /\ files_to_process = <<>> /\ (processed # {} \/ asked_all)
    /\ \/ /\ processed # {} /\ ClosedUnderImport(processed)
          /\ Insert(t, processed)
          /\ losses' = IF missed THEN losses \cup {key(t)} ELSE losses
       \/ /\ processed = {} \/ ~ClosedUnderImport(processed)
          /\ Fail(t) /\ UNCHANGED <<pools, loads, losses>>
    /\ files_to_process' = <<>> /\ processed' = {} /\ asked_all' = FALSE /\ missed' = FALSE
    /\ UNCHANGED <<channels, config, calls, failures>>

Step(t) ==
    \/ GetChannel(t) \/ CreateChannel(t) \/ GetPool(t) \/ Lock(t) \/ LoadFile(t)
    \/ Seed(t) \/ Fetch(t) \/ FetchAll(t) \/ Build(t)

Next == \E t \in Clients : Step(t) \/ \E c \in Configs : New(t, c)

Spec == Init /\ [][Next]_vars /\ \A t \in Clients : SF_vars(Step(t))

-----------------------------------------------------------------------------
(* Properties                                                              *)

places == {"idle", "channel", "create", "pool", "lock", "load", "seed", "fetch", "made", "failed"}

\* The channel cache stays within its bound, which it may meet between a look-up and
\* the insertion of several clients.
ChannelsBounded == channels \subseteq Keys("channel") /\ Cardinality(channels) <= MaxEntries

\* One client loads at a time, and holds the mutex while it does.
OneLoads ==
    /\ \A t \in Clients : pc[t] \in {"load", "seed", "fetch"} => loading = {t}
    /\ \A t \in loading : t \in Clients /\ pc[t] \in {"load", "channel", "create", "seed", "fetch"}

TypeOK ==
    /\ ChannelsBounded /\ OneLoads
    /\ DOMAIN pools \subseteq Keys("pool") /\ \A k \in DOMAIN pools : pools[k] \subseteq Files
    /\ pc \in [Clients -> places]
    /\ processed \subseteq Files

\* A pool is loaded once, however many clients miss it at the same time; a client that
\* is made has it in the cache.
LoadedOnce ==
    /\ \A k \in Keys("pool") : loads[k] <= 1
    /\ \A t \in Clients : pc[t] = "made" => key(t) \in DOMAIN pools

Definitions(services) == Imported({FileOf[s] : s \in services})

\* A pool loaded by reflection without a failed request has the files of the services
\* asked for with all they import, and no others: of the target or, if the server does
\* not answer for that, of all the services it lists and answers for.
PoolIsComplete ==
    \A c \in Configs :
        c.source = "reflection" /\ c.pool \in DOMAIN pools \ losses =>
            pools[c.pool] = Definitions(IF c.target \cap c.answers # {} THEN c.target \cap c.answers
                                        ELSE Range(c.listed) \cap c.answers)

\* Every client is made or refused, while its servers answer or fail: the mutex passes
\* on, and the requests of a load come to an end.
EveryCallReturns ==
    \A t \in Clients : (pc[t] = "channel") ~> (pc[t] \in {"made", "failed"})

=============================================================================
