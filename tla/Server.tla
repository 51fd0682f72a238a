------------------------------ MODULE Server ------------------------------
(***************************************************************************)
(* The process around the turns: the handler of each request                *)
(* (internal/server/server.go), the SIGHUP loop that swaps configuration    *)
(* and provider registry under running requests, and the shutdown           *)
(* (cmd/fuse-sidecar/main.go).  What a turn does is Pipeline's subject; here *)
(* it looks up providers, ends, and is counted and recorded.                *)
(*                                                                         *)
(* A definition named X_Something is X with one plausible mistake.          *)
(***************************************************************************)
EXTENDS Config, FiniteSets

CONSTANTS
  Requests,    \* the requests clients send
  Files,       \* what the configuration file may hold
  NoFile,
  MaxEdits,    \* bound: edits of the configuration file
  MaxSignals   \* bound: SIGHUPs

ASSUME FileAssumption == (\A f \in Files : IsFile(f)) /\ NoFile \notin Files
ASSUME BoundAssumption == MaxEdits \in Nat /\ MaxSignals \in Nat

\* The liveState made of a file that loads and builds.
State(f) == [models |-> ApplyDefaults(f).models, registry |-> f.providers]

VARIABLES
  file,       \* what the configuration file holds
  hup,        \* a SIGHUP waits in hupCh
  loader,     \* the SIGHUP loop: what it does, and the file it has read
  live,       \* Server.state
  proc,       \* "serving", "stopping"; "exited" when the handlers had returned,
              \* "cut" when they had not
  pc,         \* [Requests -> where its handler is]
  st,         \* [Requests -> the liveState it works with]
  turn,       \* [Requests -> the turn: its model, how it ended, what it spent]
  missed,     \* the requests that did not find a configured provider
  counters,   \* fuse_requests_total, the outcome counters, the token counters
  status,     \* what statusBuf was given, oldest first
  snapshots,  \* the requests whose snapshot was written
  asked,      \* history: the file at the last SIGHUP, until it is edited again
  edits, signals   \* how many there were, for the bounds

system == <<file, hup, loader, live, asked, edits, signals>>
records == <<counters, status, snapshots>>
vars == <<system, records, proc, pc, st, turn, missed>>

Kinds == {"tool_call", "fusion", "degraded", "failed"}
Places == {"idle", "decoding", "running", "failed", "recording", "writing",
           "counting", "rejected", "returned"}
InHandler == {"decoding", "running", "failed", "recording", "writing", "counting"}
Alive == proc \in {"serving", "stopping"}

NoState == [models |-> <<>>, registry |-> {}]
NoTurn == [model |-> "none", kind |-> "none", spent |-> FALSE]

Init ==
  /\ file \in {f \in Files : Loads(f) /\ Buildable(f)}
  /\ live = State(file)
  /\ hup = FALSE /\ loader = [does |-> "waits", read |-> NoFile]
  /\ proc = "serving"
  /\ pc = [r \in Requests |-> "idle"]
  /\ st = [r \in Requests |-> NoState]
  /\ turn = [r \in Requests |-> NoTurn]
  /\ missed = {}
  /\ counters = [c \in Kinds \cup {"requests", "tokens"} |-> 0]
  /\ status = <<>> /\ snapshots = {}
  /\ asked = NoFile /\ edits = 0 /\ signals = 0

-----------------------------------------------------------------------------
(* The operator, and the SIGHUP loop.                                       *)

Edit ==
  /\ Alive /\ edits < MaxEdits
  /\ file' \in Files \ {file}
  /\ asked' = NoFile /\ edits' = edits + 1
  /\ UNCHANGED <<hup, loader, live, signals, records, proc, pc, st, turn, missed>>

\* os/signal does not wait for a receiver: hupCh holds one signal, and another
\* one is dropped while it is there.
Sighup_Unbuffered ==
  /\ Alive /\ signals < MaxSignals
  /\ hup' = (hup \/ loader.does = "waits")
  /\ asked' = file /\ signals' = signals + 1
  /\ UNCHANGED <<file, loader, live, edits, records, proc, pc, st, turn, missed>>
Sighup ==
  /\ Alive /\ signals < MaxSignals
  /\ hup' = TRUE
  /\ asked' = file /\ signals' = signals + 1
  /\ UNCHANGED <<file, loader, live, edits, records, proc, pc, st, turn, missed>>

TakeSignal ==
  /\ Alive /\ loader.does = "waits" /\ hup
  /\ hup' = FALSE /\ loader' = [loader EXCEPT !.does = "loads"]
  /\ UNCHANGED <<file, live, asked, edits, signals, records, proc, pc, st, turn, missed>>

\* config.Load; a file that does not pass keeps the old state.
Load ==
  /\ Alive /\ loader.does = "loads"
  /\ loader' = IF Loads(file) THEN [does |-> "builds", read |-> file]
                              ELSE [does |-> "waits", read |-> NoFile]
  /\ UNCHANGED <<file, hup, live, asked, edits, signals, records, proc, pc, st, turn, missed>>

\* BuildRegistry, and Reload: one pointer is swapped.
Build ==
  /\ Alive /\ loader.does = "builds"
  /\ live' = IF Buildable(loader.read) THEN State(loader.read) ELSE live
  /\ loader' = [does |-> "waits", read |-> NoFile]
  /\ UNCHANGED <<file, hup, asked, edits, signals, records, proc, pc, st, turn, missed>>

-----------------------------------------------------------------------------
(* The handler of one request.                                              *)

Arrive(r) ==
  /\ proc = "serving" /\ pc[r] = "idle"
  /\ pc' = [pc EXCEPT ![r] = "decoding"]
  /\ st' = [st EXCEPT ![r] = live]
  /\ UNCHANGED <<system, records, proc, turn, missed>>

\* A body that does not decode, an unknown model, or stream=false.
Reject(r) ==
  /\ Alive /\ pc[r] = "decoding"
  /\ pc' = [pc EXCEPT ![r] = "rejected"]
  /\ UNCHANGED <<system, records, proc, st, turn, missed>>

Admit(r) ==
  /\ Alive /\ pc[r] = "decoding"
  /\ \E m \in DOMAIN st[r].models : turn' = [turn EXCEPT ![r].model = m]
  /\ pc' = [pc EXCEPT ![r] = "running"]
  /\ counters' = [counters EXCEPT !.requests = @ + 1]
  /\ UNCHANGED <<system, status, snapshots, proc, st, missed>>

\* The pipeline looks up a provider one of the model's endpoints names: at the
\* start of the turn, for each panel member, for the judge.
Lookup_Live(r) ==
  /\ Alive /\ pc[r] = "running"
  /\ \E p \in EndpointsOf(st[r].models[turn[r].model]) :
       missed' = IF p \in live.registry THEN missed ELSE missed \cup {r}
  /\ UNCHANGED <<system, records, proc, pc, st, turn>>
Lookup(r) ==
  /\ Alive /\ pc[r] = "running"
  /\ \E p \in EndpointsOf(st[r].models[turn[r].model]) :
       missed' = IF p \in st[r].registry THEN missed ELSE missed \cup {r}
  /\ UNCHANGED <<system, records, proc, pc, st, turn>>

\* Run returns; the providers have reported tokens, or none.
RunSucceeds(r) ==
  /\ Alive /\ pc[r] = "running"
  /\ \E kind \in Kinds \ {"failed"}, spent \in BOOLEAN :
       turn' = [turn EXCEPT ![r].kind = kind, ![r].spent = spent]
  /\ pc' = [pc EXCEPT ![r] = "recording"]
  /\ UNCHANGED <<system, records, proc, st, missed>>

RunFails(r) ==
  /\ Alive /\ pc[r] = "running"
  /\ \E spent \in BOOLEAN :
       turn' = [turn EXCEPT ![r].kind = "failed", ![r].spent = spent]
  /\ pc' = [pc EXCEPT ![r] = "failed"]
  /\ UNCHANGED <<system, records, proc, st, missed>>

\* The error path counts before it records, the other one after.
CountFailure_Skipped(r) ==
  /\ Alive /\ pc[r] = "failed"
  /\ pc' = [pc EXCEPT ![r] = "recording"]
  /\ UNCHANGED <<system, records, proc, st, turn, missed>>
CountFailure(r) ==
  /\ Alive /\ pc[r] = "failed"
  /\ counters' = [counters EXCEPT !.failed = @ + 1]
  /\ pc' = [pc EXCEPT ![r] = "recording"]
  /\ UNCHANGED <<system, status, snapshots, proc, st, turn, missed>>

\* recordSnapshot, first half: statusBuf.Push.  A failed turn's snapshot has no
\* usage, whatever the turn has spent.
Push(r) ==
  /\ Alive /\ pc[r] = "recording"
  /\ status' = Append(status, [req |-> r, kind |-> turn[r].kind,
                               usage |-> turn[r].kind # "failed" /\ turn[r].spent])
  /\ pc' = [pc EXCEPT ![r] = "writing"]
  /\ UNCHANGED <<system, counters, snapshots, proc, st, turn, missed>>

\* Second half: snapshots.Write, whose error is only logged.
Write(r) ==
  /\ Alive /\ pc[r] = "writing"
  /\ snapshots' \in {snapshots, snapshots \cup {r}}
  /\ pc' = [pc EXCEPT ![r] = IF turn[r].kind = "failed" THEN "returned" ELSE "counting"]
  /\ UNCHANGED <<system, counters, status, proc, st, turn, missed>>

CountOutcome(r) ==
  /\ Alive /\ pc[r] = "counting"
  /\ counters' = [counters EXCEPT ![turn[r].kind] = @ + 1,
                                  !.tokens = @ + IF turn[r].spent THEN 1 ELSE 0]
  /\ pc' = [pc EXCEPT ![r] = "returned"]
  /\ UNCHANGED <<system, status, snapshots, proc, st, turn, missed>>

-----------------------------------------------------------------------------
(* SIGINT or SIGTERM: Shutdown waits for the handlers, for five seconds.    *)

Stop ==
  /\ proc = "serving" /\ proc' = "stopping"
  /\ UNCHANGED <<system, records, pc, st, turn, missed>>

Exit ==
  /\ proc = "stopping" /\ \A r \in Requests : pc[r] \notin InHandler
  /\ proc' = "exited"
  /\ UNCHANGED <<system, records, pc, st, turn, missed>>

Deadline_Ignored ==
  /\ proc = "stopping" /\ \A r \in Requests : pc[r] # "running"
  /\ proc' = "cut"
  /\ UNCHANGED <<system, records, pc, st, turn, missed>>
Deadline ==
  /\ proc = "stopping"
  /\ proc' = "cut"
  /\ UNCHANGED <<system, records, pc, st, turn, missed>>

\* ListenAndServe returns with an error: run returns, and waits for nobody.
ListenFails ==
  /\ proc = "serving"
  /\ proc' = "cut"
  /\ UNCHANGED <<system, records, pc, st, turn, missed>>

Ended == ~Alive /\ UNCHANGED vars

-----------------------------------------------------------------------------
Handler(r) ==
  \/ Arrive(r) \/ Reject(r) \/ Admit(r) \/ Lookup(r) \/ RunSucceeds(r) \/ RunFails(r)
  \/ CountFailure(r) \/ Push(r) \/ Write(r) \/ CountOutcome(r)

Next ==
  \/ Edit \/ Sighup \/ TakeSignal \/ Load \/ Build
  \/ \E r \in Requests : Handler(r)
  \/ Stop \/ Exit \/ Deadline \/ ListenFails
  \/ Ended

\* The SIGHUP loop and the shutdown's timer run; turns may take for ever.
Fairness == WF_vars(TakeSignal) /\ WF_vars(Load) /\ WF_vars(Build) /\ WF_vars(Deadline)

Spec == Init /\ [][Next]_vars /\ Fairness

-----------------------------------------------------------------------------
(* Properties.                                                              *)

TypeOK ==
  /\ file \in Files /\ hup \in BOOLEAN
  /\ loader \in [does : {"waits", "loads", "builds"}, read : Files \cup {NoFile}]
  /\ proc \in {"serving", "stopping", "exited", "cut"}
  /\ pc \in [Requests -> Places]
  /\ turn \in [Requests -> [model : Models \cup {"none"}, kind : Kinds \cup {"none"},
                            spent : BOOLEAN]]
  /\ missed \subseteq Requests
  /\ counters \in [Kinds \cup {"requests", "tokens"} -> Nat]
  /\ status \in Seq([req : Requests, kind : Kinds, usage : BOOLEAN])
  /\ snapshots \subseteq Requests
  /\ asked \in Files \cup {NoFile}

\* However often the configuration is swapped under it, a turn finds every
\* provider its model's endpoints name, in the registry built with them.
ProviderFound == missed = {}

\* However the operator edits and reloads, every turn runs with a quorum its panel
\* can reach and a timeout, also where the file leaves them out: what Pipeline
\* assumes (config.go:148-155, 214-222; server.go:68).
TurnsUsable ==
  \A r \in Requests :
    pc[r] = "running" => Usable(st[r].models[turn[r].model])

\* No state, the live one or a request's, mixes two files or comes from one that
\* did not load; the file on its way to become one was validated.
Whole(s) == \E f \in Files : Loads(f) /\ Buildable(f) /\ s = State(f)
StateInv ==
  /\ DOMAIN st = Requests
  /\ Whole(live)
  /\ loader.does = "builds" => loader.read \in Files /\ Loads(loader.read)
  /\ \A r \in Requests : pc[r] # "idle" => Whole(st[r])
TurnInv ==
  \A r \in Requests :
    /\ pc[r] = "running" => turn[r].model \in DOMAIN st[r].models
    /\ pc[r] \in {"failed", "recording", "writing", "counting"} => turn[r].kind \in Kinds

SafeInv == TypeOK /\ StateInv /\ TurnInv /\ ProviderFound

\* Between requests the counters of /metrics, the entries of /admin/status and
\* the requests themselves tell the same story: every request that was counted
\* has one entry, under the outcome it is counted under, and tokens with it.
Entries(kind) == {i \in DOMAIN status : status[i].kind = kind}
Reconciled ==
  (\A r \in Requests : pc[r] \notin InHandler) =>
    /\ \A kind \in Kinds : counters[kind] = Cardinality(Entries(kind))
    /\ counters.requests = Len(status)
    /\ counters.tokens = Cardinality({i \in DOMAIN status : status[i].usage})
    /\ \A i, j \in DOMAIN status : status[i].req = status[j].req => i = j
    /\ snapshots \subseteq {status[i].req : i \in DOMAIN status}

\* Halfway through the handlers: an entry is one its handler has pushed, every
\* handler past Push has one, and says of the turn what is counted of it; a
\* failed turn is counted before its entry is pushed, any other one after.
At(places) == {r \in Requests : pc[r] \in places}
Pushed == {"writing", "counting", "returned"}
Done == {i \in DOMAIN status : pc[status[i].req] = "returned"}
RecordInv ==
  /\ \A i \in DOMAIN status :
       LET r == status[i].req
       IN  /\ pc[r] \in Pushed
           /\ status[i].kind = turn[r].kind
           /\ status[i].usage = (turn[r].kind # "failed" /\ turn[r].spent)
  /\ \A i, j \in DOMAIN status : status[i].req = status[j].req => i = j
  /\ \A r \in At(Pushed) : \E i \in DOMAIN status : status[i].req = r
  /\ snapshots \subseteq {status[i].req : i \in DOMAIN status}
  /\ \A r \in At({"failed"}) : turn[r].kind = "failed"
  /\ \A r \in At({"counting"}) : turn[r].kind # "failed"
Failing == {r \in At({"recording"}) : turn[r].kind = "failed"}
Unrecorded == At({"running", "failed", "recording"})
CountInv ==
  /\ IsFiniteSet(Unrecorded)
  /\ counters.requests = Len(status) + Cardinality(Unrecorded)
  /\ counters.failed = Cardinality(Entries("failed")) + Cardinality(Failing)
  /\ \A kind \in Kinds \ {"failed"} :
       counters[kind] = Cardinality(Entries(kind) \cap Done)
  /\ counters.tokens = Cardinality({i \in Done : status[i].usage})

IInv == SafeInv /\ RecordInv /\ CountInv

\* The last SIGHUP is not lost, also when it comes while a reload is under way:
\* the file it was sent for becomes the live state, unless it is edited again or
\* does not load.
ReloadTakesEffect ==
  \A f \in {g \in Files : Loads(g) /\ Buildable(g)} :
    asked = f ~> (live = State(f) \/ asked # f \/ ~Alive)

\* A shutdown ends, however long the turns in flight would still take.
ShutdownEnds == proc = "stopping" ~> proc \in {"exited", "cut"}
=============================================================================
