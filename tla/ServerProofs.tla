--------------------------- MODULE ServerProofs ---------------------------
(***************************************************************************)
(* Hot reload never leaves a request without a provider, the counters and   *)
(* the status entries agree, and a clean shutdown leaves nothing half done,  *)
(* for any number of requests, configuration files and reloads.             *)
(***************************************************************************)
EXTENDS Server, SequenceTheorems, FiniteSetTheorems, TLAPS

\* Defaults leave a model's endpoints alone.
LEMMA DefaultsKeepEndpoints ==
  ASSUME NEW m \in Model
  PROVE  /\ WithDefaults(m) \in Model
         /\ EndpointsOf(WithDefaults(m)) = EndpointsOf(m)
<1>1. Given(m.panelTimeoutMs, 25000) \in Int /\ Given(m.panelMinSuccess, 2) \in Int
  BY DEF Given, Model
<1>2. /\ WithDefaults(m).primary = m.primary /\ WithDefaults(m).judge = m.judge
      /\ WithDefaults(m).panel = m.panel
  BY DEF WithDefaults, Model
<1>3. WithDefaults(m) \in Model
  <2> DEFINE timed == [m EXCEPT !.panelTimeoutMs = Given(m.panelTimeoutMs, 25000)]
  <2>1. timed \in Model /\ timed.panelMinSuccess = m.panelMinSuccess
    BY <1>1 DEF Model
  <2>2. WithDefaults(m) = [timed EXCEPT !.panelMinSuccess = Given(m.panelMinSuccess, 2)]
    BY DEF WithDefaults, Model
  <2>3. [timed EXCEPT !.panelMinSuccess = Given(m.panelMinSuccess, 2)] \in Model
    <3> HIDE DEF timed
    <3> QED
      BY <1>1, <2>1 DEF Model
  <2> QED
    BY <2>2, <2>3
<1>4. EndpointsOf(WithDefaults(m)) = EndpointsOf(m)
  BY <1>2 DEF EndpointsOf
<1> QED
  BY <1>3, <1>4

\* What a file that loads says of a model, after defaults: Validate's verdict.
LEMMA LoadedModels ==
  ASSUME NEW f \in Files, Loads(f), NEW id \in DOMAIN f.models
  PROVE  /\ ApplyDefaults(f).models[id] \in Model
         /\ ValidModel(ApplyDefaults(f).models[id], f.providers)
<1>1. /\ f.models \in [DOMAIN f.models -> Model]
      /\ f = [parses |-> f.parses, models |-> f.models, providers |-> f.providers,
              keyless |-> f.keyless, unbased |-> f.unbased]
  BY FileAssumption DEF IsFile
<1>2. /\ ApplyDefaults(f).providers = f.providers
      /\ ApplyDefaults(f).models = [k \in DOMAIN f.models |-> WithDefaults(f.models[k])]
  BY <1>1 DEF ApplyDefaults
<1> QED
  BY <1>1, <1>2, DefaultsKeepEndpoints DEF Loads, Validate

\* A state that comes from one file that loads has, for each model, a provider
\* for each endpoint, a quorum its panel can reach and a timeout.
LEMMA WholeStates ==
  ASSUME NEW s, Whole(s)
  PROVE  /\ DOMAIN s.models \subseteq Models
         /\ \A id \in DOMAIN s.models :
              EndpointsOf(s.models[id]) \subseteq s.registry /\ Usable(s.models[id])
<1>1. PICK f \in Files : Loads(f) /\ s = State(f)
  BY DEF Whole
<1>2. /\ f = [parses |-> f.parses, models |-> f.models, providers |-> f.providers,
              keyless |-> f.keyless, unbased |-> f.unbased]
      /\ DOMAIN f.models \subseteq Models
  BY FileAssumption DEF IsFile
<1>3. s.models = ApplyDefaults(f).models /\ s.registry = f.providers
  BY <1>1 DEF State
<1>4. DOMAIN s.models = DOMAIN f.models
  BY <1>2, <1>3 DEF ApplyDefaults
<1>5. ASSUME NEW id \in DOMAIN f.models
      PROVE  EndpointsOf(s.models[id]) \subseteq s.registry /\ Usable(s.models[id])
  <2>1. s.models[id] \in Model /\ ValidModel(s.models[id], s.registry)
    BY <1>1, <1>3, LoadedModels
  <2>2. s.models[id].panelMinSuccess \in Int /\ Len(s.models[id].panel) \in Nat
    BY <2>1 DEF Model
  <2> QED
    BY <2>1, <2>2 DEF ValidModel, Usable
<1> QED
  BY <1>2, <1>4, <1>5

\* Every step of the operator and of the SIGHUP loop keeps the invariant.
LEMMA SystemStep ==
  ASSUME SafeInv, Edit \/ Sighup \/ TakeSignal \/ Load \/ Build
  PROVE  SafeInv'
<1>1. UNCHANGED <<records, proc, pc, st, turn, missed>>
  BY DEF Edit, Sighup, TakeSignal, Load, Build
<1>2. TypeOK'
  <2>1. CASE Edit \/ Sighup
    BY <1>1, <2>1 DEF Edit, Sighup, SafeInv, TypeOK, records
  <2>2. CASE TakeSignal
    BY <1>1, <2>2 DEF TakeSignal, SafeInv, TypeOK, records
  <2>3. CASE Load
    BY <1>1, <2>3 DEF Load, SafeInv, TypeOK, records
  <2>4. CASE Build
    BY <1>1, <2>4 DEF Build, SafeInv, TypeOK, records
  <2> QED
    BY <2>1, <2>2, <2>3, <2>4
<1>3. StateInv'
  <2>1. CASE Edit \/ Sighup
    BY <1>1, <2>1 DEF Edit, Sighup, SafeInv, StateInv, Whole
  <2>2. CASE TakeSignal
    BY <1>1, <2>2 DEF TakeSignal, SafeInv, TypeOK, StateInv, Whole
  <2>3. CASE Load
    <3>1. loader'.does = "builds" => loader'.read \in Files /\ Loads(loader'.read)
      BY <2>3 DEF Load, SafeInv, TypeOK
    <3> QED
      BY <1>1, <2>3, <3>1 DEF Load, SafeInv, StateInv, Whole
  <2>4. CASE Build
    <3>1. Whole(live')
      BY <2>4 DEF Build, SafeInv, StateInv, Whole
    <3>2. loader'.does # "builds"
      BY <2>4 DEF Build
    <3> QED
      BY <1>1, <3>1, <3>2 DEF SafeInv, StateInv, Whole
  <2> QED
    BY <2>1, <2>2, <2>3, <2>4
<1>4. TurnInv' /\ ProviderFound'
  BY <1>1 DEF SafeInv, TurnInv, ProviderFound
<1> QED
  BY <1>2, <1>3, <1>4 DEF SafeInv

\* A counter that goes up stays a counter.
LEMMA Counting ==
  ASSUME NEW counts \in [Kinds \cup {"requests", "tokens"} -> Nat],
         NEW c \in Kinds \cup {"requests", "tokens"}, NEW n \in Nat
  PROVE  [counts EXCEPT ![c] = @ + n] \in [Kinds \cup {"requests", "tokens"} -> Nat]
OBVIOUS

\* Every step of a handler keeps the types.
LEMMA HandlerType ==
  ASSUME SafeInv, NEW r \in Requests, Handler(r)
  PROVE  TypeOK'
<1> USE DEF SafeInv, TypeOK, system, records, Places, Kinds
<1>1. CASE Arrive(r) \/ Reject(r)
  BY <1>1 DEF Arrive, Reject
<1>2. CASE Admit(r)
  <2>1. PICK m \in DOMAIN st[r].models : turn' = [turn EXCEPT ![r].model = m]
    BY <1>2 DEF Admit
  <2>2. m \in Models
    BY <1>2, <2>1, WholeStates DEF Admit, StateInv
  <2>3. turn' \in [Requests -> [model : Models \cup {"none"},
                                 kind : Kinds \cup {"none"}, spent : BOOLEAN]]
    BY <2>1, <2>2
  <2>4. counters' \in [Kinds \cup {"requests", "tokens"} -> Nat]
    BY <1>2, Counting DEF Admit
  <2> QED
    BY <1>2, <2>3, <2>4 DEF Admit
<1>3. CASE Lookup(r)
  BY <1>3 DEF Lookup
<1>4. CASE RunSucceeds(r) \/ RunFails(r)
  <2>1. PICK kind \in Kinds, spent \in BOOLEAN :
          turn' = [turn EXCEPT ![r].kind = kind, ![r].spent = spent]
    BY <1>4 DEF RunSucceeds, RunFails
  <2>2. turn' \in [Requests -> [model : Models \cup {"none"},
                                 kind : Kinds \cup {"none"}, spent : BOOLEAN]]
    BY <2>1
  <2>3. pc' \in [Requests -> Places]
    BY <1>4 DEF RunSucceeds, RunFails
  <2> QED
    BY <1>4, <2>2, <2>3 DEF RunSucceeds, RunFails
<1>5. CASE CountFailure(r) \/ CountOutcome(r)
  <2>1. counters' \in [Kinds \cup {"requests", "tokens"} -> Nat]
    <3>1. CASE CountFailure(r)
      BY <3>1, Counting DEF CountFailure
    <3>2. CASE CountOutcome(r)
      <4>1. turn[r].kind \in Kinds /\ (IF turn[r].spent THEN 1 ELSE 0) \in Nat
        BY <3>2 DEF CountOutcome, TurnInv
      <4>2. /\ counters' = [[counters EXCEPT ![turn[r].kind] = @ + 1] EXCEPT
                              !.tokens = @ + IF turn[r].spent THEN 1 ELSE 0]
        BY <3>2 DEF CountOutcome
      <4> QED
        BY <4>1, <4>2, Counting
    <3> QED
      BY <1>5, <3>1, <3>2
  <2> QED
    BY <1>5, <2>1 DEF CountFailure, CountOutcome
<1>6. CASE Push(r)
  BY <1>6 DEF Push, TurnInv
<1>7. CASE Write(r)
  BY <1>7 DEF Write
<1> QED
  BY <1>1, <1>2, <1>3, <1>4, <1>5, <1>6, <1>7 DEF Handler

\* A handler works with one state from its first step to its last.
LEMMA HandlerState ==
  ASSUME SafeInv, NEW r \in Requests, Handler(r)
  PROVE  StateInv'
<1>1. UNCHANGED <<file, loader, live>>
  BY DEF Handler, Arrive, Reject, Admit, Lookup, RunSucceeds, RunFails,
    CountFailure, Push, Write, CountOutcome, system
<1>2. CASE Arrive(r)
  BY <1>1, <1>2 DEF Arrive, SafeInv, TypeOK, StateInv, Whole
<1>3. CASE ~Arrive(r)
  <2>1. st' = st /\ pc[r] # "idle"
    BY <1>3 DEF Handler, Reject, Admit, Lookup, RunSucceeds, RunFails,
      CountFailure, Push, Write, CountOutcome
  <2>2. \A q \in Requests : pc'[q] # "idle" => pc[q] # "idle"
    BY <1>3, <2>1 DEF Handler, Reject, Admit, Lookup, RunSucceeds, RunFails,
      CountFailure, Push, Write, CountOutcome, SafeInv, TypeOK
  <2> QED
    BY <1>1, <2>1, <2>2 DEF SafeInv, StateInv, Whole
<1> QED
  BY <1>2, <1>3

\* A running turn has a model of its state, a turn that ended has an outcome,
\* and no lookup misses.
LEMMA HandlerTurn ==
  ASSUME SafeInv, NEW r \in Requests, Handler(r)
  PROVE  TurnInv' /\ ProviderFound'
<1> USE DEF SafeInv, TypeOK, TurnInv, ProviderFound
<1>1. CASE Arrive(r) \/ Reject(r)
  BY <1>1 DEF Arrive, Reject, StateInv
<1>2. CASE Admit(r)
  BY <1>2 DEF Admit
<1>3. CASE Lookup(r)
  <2>1. Whole(st[r]) /\ turn[r].model \in DOMAIN st[r].models
    BY <1>3 DEF Lookup, StateInv
  <2>2. EndpointsOf(st[r].models[turn[r].model]) \subseteq st[r].registry
    BY <2>1, WholeStates
  <2> QED
    BY <1>3, <2>2 DEF Lookup
<1>4. CASE RunSucceeds(r) \/ RunFails(r)
  <2>1. PICK kind \in Kinds, spent \in BOOLEAN :
          turn' = [turn EXCEPT ![r].kind = kind, ![r].spent = spent]
    BY <1>4 DEF RunSucceeds, RunFails, Kinds
  <2>2. /\ turn'[r].kind \in Kinds
        /\ \A q \in Requests \ {r} : turn'[q] = turn[q]
    BY <2>1
  <2> QED
    BY <1>4, <2>2 DEF RunSucceeds, RunFails
<1>5. CASE CountFailure(r)
  BY <1>5 DEF CountFailure
<1>6. CASE Push(r) \/ Write(r) \/ CountOutcome(r)
  BY <1>6 DEF Push, Write, CountOutcome
<1> QED
  BY <1>1, <1>2, <1>3, <1>4, <1>5, <1>6 DEF Handler

\* Every step of the process keeps the invariant.
LEMMA Step ==
  ASSUME SafeInv, [Next]_vars
  PROVE  SafeInv'
<1>1. CASE Stop \/ Exit \/ Deadline \/ ListenFails
  BY <1>1 DEF Stop, Exit, Deadline, ListenFails, system, records, SafeInv, TypeOK, StateInv,
    TurnInv, ProviderFound, Whole
<1>2. CASE UNCHANGED vars
  BY <1>2 DEF vars, system, records, SafeInv, TypeOK, StateInv, TurnInv,
    ProviderFound, Whole
<1>3. ASSUME NEW r \in Requests, Handler(r) PROVE SafeInv'
  BY <1>3, HandlerType, HandlerState, HandlerTurn DEF SafeInv
<1> QED
  BY <1>1, <1>2, <1>3, SystemStep DEF Next, Ended

-----------------------------------------------------------------------------
(* The counters, the entries and the requests.                              *)

\* The steps that leave every handler and every record where they are.
LEMMA SystemKeepsRecords ==
  ASSUME Edit \/ Sighup \/ TakeSignal \/ Load \/ Build \/ Stop \/ Exit \/ Deadline
           \/ ListenFails \/ UNCHANGED vars
  PROVE  UNCHANGED <<counters, status, snapshots, pc, turn>>
BY DEF Edit, Sighup, TakeSignal, Load, Build, Stop, Exit, Deadline, ListenFails,
  vars, system, records

\* Records and counts are about these variables only.
LEMMA RecordsKept ==
  ASSUME UNCHANGED <<counters, status, snapshots, pc, turn>>
  PROVE  /\ RecordInv => RecordInv'
         /\ CountInv => CountInv'
BY DEF RecordInv, CountInv, At, Pushed, Done, Failing, Unrecorded, Entries

\* A handler moves its own request only.
LEMMA OwnRequest ==
  ASSUME SafeInv, NEW r \in Requests, Handler(r)
  PROVE  /\ \A q \in Requests \ {r} : pc'[q] = pc[q] /\ turn'[q] = turn[q]
         /\ pc \in [Requests -> Places] /\ pc' \in [Requests -> Places]
         /\ DOMAIN turn = Requests
<1> USE DEF SafeInv, TypeOK
<1>1. pc' \in [Requests -> Places]
  BY HandlerType
<1>2. \A q \in Requests \ {r} : pc'[q] = pc[q]
  BY DEF Handler, Arrive, Reject, Admit, Lookup, RunSucceeds, RunFails, CountFailure,
    Push, Write, CountOutcome
<1>3. \A q \in Requests \ {r} : turn'[q] = turn[q]
  <2>1. CASE RunSucceeds(r) \/ RunFails(r)
    BY <2>1 DEF RunSucceeds, RunFails
  <2>2. CASE Admit(r)
    BY <2>2 DEF Admit
  <2>3. CASE ~(RunSucceeds(r) \/ RunFails(r) \/ Admit(r))
    BY <2>3 DEF Handler, Arrive, Reject, Lookup, CountFailure, Push, Write, CountOutcome
  <2> QED
    BY <2>1, <2>2, <2>3
<1> QED
  BY <1>1, <1>2, <1>3

\* An entry is a record about a request.
LEMMA EntryType ==
  ASSUME SafeInv
  PROVE  /\ Len(status) \in Nat /\ DOMAIN status = 1 .. Len(status)
         /\ \A i \in DOMAIN status :
              /\ status[i].req \in Requests /\ status[i].kind \in Kinds
              /\ status[i].usage \in BOOLEAN
<1> DEFINE Entry == [req : Requests, kind : Kinds, usage : BOOLEAN]
<1>1. status \in Seq(Entry)
  BY DEF SafeInv, TypeOK
<1>2. status \in [1 .. Len(status) -> Entry] /\ Len(status) \in Nat
  <2> HIDE DEF Entry
  <2> QED
    BY <1>1, LenProperties
<1> QED
  BY <1>2

\* What Push appends: one entry, the last, about the request that is recorded.
LEMMA PushedEntry ==
  ASSUME SafeInv, NEW r \in Requests, Push(r)
  PROVE  /\ Len(status) \in Nat /\ Len(status') = Len(status) + 1
         /\ DOMAIN status' = DOMAIN status \cup {Len(status) + 1}
         /\ Len(status) + 1 \notin DOMAIN status
         /\ \A i \in DOMAIN status : status'[i] = status[i]
         /\ status'[Len(status) + 1].req = r
         /\ status'[Len(status) + 1].kind = turn[r].kind
         /\ status'[Len(status) + 1].usage = (turn[r].kind # "failed" /\ turn[r].spent)
<1> DEFINE e == [req |-> r, kind |-> turn[r].kind,
                 usage |-> turn[r].kind # "failed" /\ turn[r].spent]
<1>1. status \in Seq([req : Requests, kind : Kinds, usage : BOOLEAN])
  BY DEF SafeInv, TypeOK
<1>2. status' = Append(status, e)
  BY DEF Push
<1>3. /\ Len(status) \in Nat /\ Len(status') = Len(status) + 1
      /\ DOMAIN status = 1 .. Len(status) /\ DOMAIN status' = 1 .. Len(status) + 1
      /\ \A i \in 1 .. Len(status) : status'[i] = status[i]
      /\ status'[Len(status) + 1] = e
  <2> HIDE DEF e
  <2> QED
    BY <1>1, <1>2
<1> QED
  BY <1>3

\* An entry is about one request, and a request that is recorded has one.
LEMMA HandlerRecord ==
  ASSUME SafeInv, RecordInv, NEW r \in Requests, Handler(r)
  PROVE  RecordInv'
<1> USE DEF SafeInv, TypeOK, At, Pushed
<1>1. /\ \A q \in Requests \ {r} : pc'[q] = pc[q] /\ turn'[q] = turn[q]
      /\ pc \in [Requests -> Places] /\ pc' \in [Requests -> Places]
      /\ \A i \in DOMAIN status : status[i].req \in Requests
  BY OwnRequest, EntryType
<1>2. CASE pc[r] \notin Pushed /\ pc'[r] \notin Pushed
  <2>1. UNCHANGED <<status, snapshots>>
    BY <1>2 DEF Handler, Arrive, Reject, Admit, Lookup, RunSucceeds, RunFails,
      CountFailure, Push, Write, CountOutcome, records
  <2>2. \A i \in DOMAIN status : status[i].req # r
    BY <1>2 DEF RecordInv
  <2>3. pc'[r] = "failed" => turn'[r].kind = "failed"
    <3>1. CASE RunFails(r)
      BY <3>1 DEF RunFails
    <3>2. CASE ~RunFails(r)
      BY <1>2, <3>2 DEF Handler, Arrive, Reject, Admit, Lookup, RunSucceeds,
        CountFailure, Push, Write, CountOutcome
    <3> QED
      BY <3>1, <3>2
  <2>4. \A i \in DOMAIN status : /\ pc'[status[i].req] = pc[status[i].req]
                                 /\ turn'[status[i].req] = turn[status[i].req]
    BY <1>1, <2>2
  <2> HIDE DEF SafeInv, TypeOK
  <2>5. At(Pushed)' = At(Pushed)
    BY <1>1, <1>2
  <2>6. /\ \A q \in At({"failed"})' : turn'[q].kind = "failed"
        /\ \A q \in At({"counting"})' : turn'[q].kind # "failed"
    BY <1>1, <1>2, <2>3 DEF RecordInv
  <2> QED
    BY <2>1, <2>4, <2>5, <2>6 DEF RecordInv
<1>3. CASE Push(r)
  <2>1. turn' = turn /\ snapshots' = snapshots /\ pc[r] = "recording" /\ pc'[r] = "writing"
    BY <1>3 DEF Push
  <2>2. \A i \in DOMAIN status : status[i].req # r
    BY <2>1 DEF RecordInv
  <2> HIDE DEF SafeInv, TypeOK
  <2>3. \A i \in DOMAIN status' :
          LET q == status'[i].req
          IN  /\ pc'[q] \in Pushed
              /\ status'[i].kind = turn'[q].kind
              /\ status'[i].usage = (turn'[q].kind # "failed" /\ turn'[q].spent)
    <3>1. ASSUME NEW i \in DOMAIN status
          PROVE  /\ status'[i] = status[i] /\ pc'[status[i].req] = pc[status[i].req]
                 /\ turn'[status[i].req] = turn[status[i].req]
      BY <1>1, <1>3, <2>2, PushedEntry
    <3> QED
      BY <1>3, <2>1, <3>1, PushedEntry DEF RecordInv
  <2>4. \A i, j \in DOMAIN status' : status'[i].req = status'[j].req => i = j
    BY <1>3, <2>2, PushedEntry DEF RecordInv
  <2>5. \A q \in At(Pushed)' : \E i \in DOMAIN status' : status'[i].req = q
    BY <1>1, <1>3, PushedEntry DEF RecordInv
  <2>6. snapshots' \subseteq {status'[i].req : i \in DOMAIN status'}
    BY <1>3, <2>1, PushedEntry DEF RecordInv
  <2>7. /\ \A q \in At({"failed"})' : turn'[q].kind = "failed"
        /\ \A q \in At({"counting"})' : turn'[q].kind # "failed"
    BY <1>1, <2>1 DEF RecordInv
  <2> QED
    BY <2>3, <2>4, <2>5, <2>6, <2>7 DEF RecordInv
<1>4. CASE Write(r) \/ CountOutcome(r)
  <2>1. /\ status' = status /\ turn' = turn
        /\ snapshots' \subseteq snapshots \cup {r}
        /\ pc[r] \in Pushed /\ pc'[r] \in Pushed
        /\ pc'[r] = "counting" => turn[r].kind # "failed"
    BY <1>4, <1>1 DEF Write, CountOutcome
  <2>2. \E i \in DOMAIN status : status[i].req = r
    BY <2>1 DEF RecordInv
  <2>3. turn' = turn /\ \A q \in Requests : pc[q] \in Pushed <=> pc'[q] \in Pushed
    BY <1>1, <2>1
  <2> HIDE DEF SafeInv, TypeOK
  <2>4. At(Pushed)' = At(Pushed)
    BY <2>3
  <2>5. /\ \A q \in At({"failed"})' : turn'[q].kind = "failed"
        /\ \A q \in At({"counting"})' : turn'[q].kind # "failed"
    BY <1>1, <2>1 DEF RecordInv
  <2>6. snapshots' \subseteq {status[i].req : i \in DOMAIN status}
    BY <2>1, <2>2 DEF RecordInv
  <2>7. \A i \in DOMAIN status : pc'[status[i].req] \in Pushed
    BY <1>1, <2>3 DEF RecordInv
  <2> QED
    BY <2>1, <2>4, <2>5, <2>6, <2>7 DEF RecordInv
<1> QED
  BY <1>1, <1>2, <1>3, <1>4 DEF Handler, Arrive, Reject, Admit, Lookup, RunSucceeds,
    RunFails, CountFailure

\* What one more element, or one fewer, does to the size of a finite set.
LEMMA OneMore ==
  ASSUME NEW S, IsFiniteSet(S), NEW x, x \notin S
  PROVE  /\ IsFiniteSet(S \cup {x}) /\ Cardinality(S) \in Nat
         /\ Cardinality(S \cup {x}) = Cardinality(S) + 1
BY FS_AddElement, FS_CardinalityType
LEMMA OneLess ==
  ASSUME NEW S, IsFiniteSet(S), NEW x \in S
  PROVE  /\ IsFiniteSet(S \ {x}) /\ Cardinality(S) \in Nat
         /\ Cardinality(S) = Cardinality(S \ {x}) + 1 /\ Cardinality(S \ {x}) \in Nat
<1>1. /\ IsFiniteSet(S \ {x}) /\ Cardinality(S \ {x}) = Cardinality(S) - 1
  BY FS_RemoveElement
<1>2. Cardinality(S) \in Nat /\ Cardinality(S \ {x}) \in Nat
  BY <1>1, FS_CardinalityType
<1> QED
  BY <1>1, <1>2

\* The sets that are counted are finite: parts of the entries and of the
\* requests that are on their way to one.
LEMMA CountedFinite ==
  ASSUME SafeInv, CountInv, NEW S, S \subseteq DOMAIN status \/ S \subseteq Unrecorded
  PROVE  IsFiniteSet(S) /\ Cardinality(S) \in Nat
<1>1. IsFiniteSet(DOMAIN status) /\ IsFiniteSet(Unrecorded)
  BY EntryType, FS_Interval DEF CountInv
<1> QED
  BY <1>1, FS_Subset, FS_CardinalityType

\* The steps before the entry is pushed.
LEMMA CountBefore ==
  ASSUME SafeInv, RecordInv, CountInv, NEW r \in Requests, Handler(r),
         pc[r] \notin Pushed, pc'[r] \notin Pushed
  PROVE  CountInv'
<1>1. /\ \A q \in Requests \ {r} : pc'[q] = pc[q] /\ turn'[q] = turn[q]
      /\ pc \in [Requests -> Places] /\ pc' \in [Requests -> Places]
  BY OwnRequest
<1>2. \A i \in DOMAIN status : status[i].req \in Requests \ {r}
  BY EntryType DEF RecordInv
<1>0. ~Push(r) /\ ~Write(r) /\ ~CountOutcome(r)
  BY <1>1 DEF Push, Write, CountOutcome, Pushed
<1>3. status' = status
  BY <1>0 DEF Handler, Arrive, Reject, Admit, Lookup, RunSucceeds, RunFails,
    CountFailure, records
<1>4. Done' = Done /\ \A kind \in Kinds : Entries(kind)' = Entries(kind)
  BY <1>1, <1>2, <1>3 DEF Done, Entries
<1>5. {i \in Done : status[i].usage}' = {i \in Done : status[i].usage}
  BY <1>3, <1>4
<1>6. counters \in [Kinds \cup {"requests", "tokens"} -> Nat]
  BY DEF SafeInv, TypeOK
<1>7. CASE Arrive(r) \/ Reject(r) \/ Lookup(r) \/ RunSucceeds(r) \/ RunFails(r)
  <2>1. /\ counters' = counters
        /\ pc'[r] \in {"running", "failed", "recording"}
             <=> pc[r] \in {"running", "failed", "recording"}
    BY <1>1, <1>7 DEF Arrive, Reject, Lookup, RunSucceeds, RunFails, records
  <2>2. /\ pc[r] # "recording"
        /\ pc'[r] = "recording" => turn'[r].kind # "failed"
    <3>1. CASE RunSucceeds(r)
      <4>1. PICK kind \in Kinds \ {"failed"}, spent \in BOOLEAN :
              turn' = [turn EXCEPT ![r].kind = kind, ![r].spent = spent]
        BY <3>1 DEF RunSucceeds
      <4> QED
        BY <3>1, <4>1, OwnRequest DEF RunSucceeds
    <3>2. CASE ~RunSucceeds(r)
      BY <1>1, <1>7, <3>2 DEF Arrive, Reject, Lookup, RunFails
    <3> QED
      BY <3>1, <3>2
  <2>3. Unrecorded' = Unrecorded
    BY <1>1, <2>1 DEF Unrecorded, At
  <2>4. Failing' = Failing
    BY <1>1, <2>2 DEF Failing, At
  <2> QED
    BY <1>3, <1>4, <1>5, <2>1, <2>3, <2>4 DEF CountInv, Kinds
<1>8. CASE Admit(r)
  <2>1. Unrecorded' = Unrecorded \cup {r} /\ r \notin Unrecorded
    BY <1>1, <1>8 DEF Admit, Unrecorded, At
  <2>2. Failing' = Failing
    BY <1>1, <1>8 DEF Admit, Failing, At
  <2>3. /\ counters'.requests = counters.requests + 1
        /\ \A c \in Kinds \cup {"tokens"} : counters'[c] = counters[c]
    BY <1>6, <1>8 DEF Admit, Kinds
  <2>4. /\ IsFiniteSet(Unrecorded')
        /\ Cardinality(Unrecorded') = Cardinality(Unrecorded) + 1
        /\ Cardinality(Unrecorded) \in Nat
    BY <2>1, OneMore DEF CountInv
  <2>5. counters'.requests = Len(status) + Cardinality(Unrecorded')
    BY <2>3, <2>4, EntryType DEF CountInv
  <2> QED
    BY <1>3, <1>4, <1>5, <2>2, <2>3, <2>4, <2>5 DEF CountInv, Kinds
<1>9. CASE CountFailure(r)
  <2>1. Unrecorded' = Unrecorded
    BY <1>1, <1>9 DEF CountFailure, Unrecorded, At
  <2>2. turn'[r].kind = "failed"
    BY <1>9 DEF CountFailure, RecordInv, At
  <2>3. Failing' = Failing \cup {r} /\ r \notin Failing
    BY <1>1, <1>9, <2>2 DEF CountFailure, Failing, At
  <2>4. Failing \subseteq Unrecorded
    BY DEF Failing, Unrecorded, At
  <2>5. /\ Cardinality(Failing') = Cardinality(Failing) + 1
        /\ Cardinality(Failing) \in Nat /\ Cardinality(Entries("failed")) \in Nat
    BY <2>3, <2>4, OneMore, CountedFinite DEF Entries
  <2>6. /\ counters'.failed = counters.failed + 1
        /\ \A c \in (Kinds \ {"failed"}) \cup {"requests", "tokens"} :
             counters'[c] = counters[c]
    BY <1>6, <1>9 DEF CountFailure, Kinds
  <2>7. counters'.failed = Cardinality(Entries("failed")) + Cardinality(Failing')
    BY <2>5, <2>6 DEF CountInv
  <2> QED
    BY <1>3, <1>4, <1>5, <2>1, <2>6, <2>7 DEF CountInv, Kinds
<1> QED
  BY <1>0, <1>7, <1>8, <1>9 DEF Handler

\* The entry is pushed: a failed turn's counts from now on, any other one's once
\* the handler has counted the outcome.
LEMMA CountPush ==
  ASSUME SafeInv, RecordInv, CountInv, NEW r \in Requests, Push(r)
  PROVE  CountInv'
<1> DEFINE n == Len(status) + 1
<1>1. /\ \A q \in Requests \ {r} : pc'[q] = pc[q]
      /\ pc \in [Requests -> Places] /\ pc' \in [Requests -> Places]
      /\ pc[r] = "recording" /\ pc'[r] = "writing"
      /\ counters' = counters /\ turn' = turn
  BY OwnRequest DEF Push, Handler
<1>2. /\ n \in Nat /\ Len(status') = n
      /\ DOMAIN status' = DOMAIN status \cup {n} /\ n \notin DOMAIN status
      /\ \A i \in DOMAIN status : status'[i] = status[i]
      /\ status'[n].req = r /\ status'[n].kind = turn[r].kind
  <2>1. /\ Len(status) \in Nat /\ Len(status') = Len(status) + 1
        /\ DOMAIN status' = DOMAIN status \cup {n} /\ n \notin DOMAIN status
        /\ \A i \in DOMAIN status : status'[i] = status[i]
    BY PushedEntry
  <2>2. status'[n].req = r /\ status'[n].kind = turn[r].kind
    BY PushedEntry
  <2> QED
    BY <2>1, <2>2
<1>3. \A i \in DOMAIN status : status[i].req \in Requests \ {r}
  BY <1>1, EntryType DEF RecordInv, Pushed
<1> HIDE DEF n
<1>4. Done' = Done
  BY <1>1, <1>2, <1>3 DEF Done
<1>5. \A kind \in Kinds :
        Entries(kind)' = IF turn[r].kind = kind THEN Entries(kind) \cup {n} ELSE Entries(kind)
  BY <1>2 DEF Entries
<1>6. /\ \A kind \in Kinds : (Entries(kind) \cap Done)' = Entries(kind) \cap Done
      /\ {i \in Done : status[i].usage}' = {i \in Done : status[i].usage}
      /\ \A kind \in Kinds : n \notin Entries(kind)
  BY <1>2, <1>4, <1>5 DEF Done, Entries
<1>7. Unrecorded' = Unrecorded \ {r} /\ r \in Unrecorded
  BY <1>1 DEF Unrecorded, At
<1>8. /\ IsFiniteSet(Unrecorded') /\ Cardinality(Unrecorded') \in Nat
      /\ Cardinality(Unrecorded) = Cardinality(Unrecorded') + 1
  BY <1>7, OneLess DEF CountInv
<1>9. counters'.requests = Len(status') + Cardinality(Unrecorded')
  BY <1>1, <1>2, <1>8, EntryType DEF CountInv, n
<1>10. counters'.failed = Cardinality(Entries("failed")') + Cardinality(Failing')
  <2>1. "failed" \in Kinds
    BY DEF Kinds
  <2>2. Failing \subseteq Unrecorded /\ Entries("failed") \subseteq DOMAIN status
    BY DEF Failing, Unrecorded, At, Entries
  <2>3. /\ IsFiniteSet(Failing) /\ IsFiniteSet(Entries("failed"))
        /\ Cardinality(Failing) \in Nat /\ Cardinality(Entries("failed")) \in Nat
    BY <2>2, CountedFinite
  <2>4. CASE turn[r].kind = "failed"
    <3>1. Failing' = Failing \ {r} /\ r \in Failing
      BY <1>1, <2>4 DEF Failing, At
    <3>2. /\ Cardinality(Failing) = Cardinality(Failing') + 1
          /\ Cardinality(Failing') \in Nat
      BY <2>3, <3>1, OneLess
    <3>3. Cardinality(Entries("failed")') = Cardinality(Entries("failed")) + 1
      BY <1>5, <1>6, <2>1, <2>3, <2>4, OneMore
    <3> QED
      BY <1>1, <2>3, <3>2, <3>3 DEF CountInv
  <2>5. CASE turn[r].kind # "failed"
    <3>1. Failing' = Failing
      BY <1>1, <2>5 DEF Failing, At
    <3> QED
      BY <1>1, <1>5, <2>1, <2>5, <3>1 DEF CountInv
  <2> QED
    BY <2>4, <2>5
<1> QED
  BY <1>1, <1>6, <1>8, <1>9, <1>10 DEF CountInv, Kinds

\* The handler writes the snapshot, counts the outcome and returns.
LEMMA CountAfter ==
  ASSUME SafeInv, RecordInv, CountInv, NEW r \in Requests, Write(r) \/ CountOutcome(r)
  PROVE  CountInv'
<1>1. /\ \A q \in Requests \ {r} : pc'[q] = pc[q]
      /\ pc \in [Requests -> Places] /\ pc' \in [Requests -> Places]
      /\ pc[r] \in {"writing", "counting"} /\ pc'[r] \in {"counting", "returned"}
      /\ status' = status /\ turn' = turn
  BY OwnRequest DEF Write, CountOutcome, Handler
<1>2. PICK e \in DOMAIN status : status[e].req = r
  BY <1>1 DEF RecordInv, At, Pushed
<1>3. /\ status[e].kind = turn[r].kind
      /\ status[e].usage = (turn[r].kind # "failed" /\ turn[r].spent)
      /\ \A i \in DOMAIN status \ {e} : status[i].req \in Requests \ {r}
      /\ e \notin Done
  BY <1>1, <1>2, EntryType DEF RecordInv, Done
<1>4. Done' = IF pc'[r] = "returned" THEN Done \cup {e} ELSE Done
  BY <1>1, <1>2, <1>3 DEF Done
<1>5. Unrecorded' = Unrecorded /\ Failing' = Failing
  BY <1>1 DEF Unrecorded, Failing, At
<1>6. \A kind \in Kinds : Entries(kind)' = Entries(kind)
  BY <1>1 DEF Entries
<1>7. counters \in [Kinds \cup {"requests", "tokens"} -> Nat]
  BY DEF SafeInv, TypeOK
<1>8. CASE Write(r)
  <2>1. /\ counters' = counters
        /\ pc'[r] = "returned" => turn[r].kind = "failed"
    BY <1>1, <1>8 DEF Write
  <2>2. /\ \A kind \in Kinds \ {"failed"} : (Entries(kind) \cap Done)' = Entries(kind) \cap Done
        /\ {i \in Done : status[i].usage}' = {i \in Done : status[i].usage}
    <3>1. CASE pc'[r] = "returned"
      <4>1. status[e].kind = "failed" /\ ~status[e].usage /\ Done' = Done \cup {e}
        BY <1>3, <1>4, <2>1, <3>1
      <4>2. \A kind \in Kinds \ {"failed"} : e \notin Entries(kind)
        BY <4>1 DEF Entries
      <4> QED
        BY <1>1, <1>6, <4>1, <4>2
    <3>2. CASE pc'[r] # "returned"
      BY <1>1, <1>4, <1>6, <3>2
    <3> QED
      BY <3>1, <3>2
  <2> QED
    BY <1>1, <1>5, <1>6, <1>8, <2>1, <2>2 DEF CountInv, Kinds, Write
<1>9. CASE CountOutcome(r)
  <2>1. pc[r] = "counting" /\ pc'[r] = "returned" /\ turn[r].kind \in Kinds \ {"failed"}
    BY <1>1, <1>9 DEF CountOutcome, RecordInv, At, SafeInv, TurnInv
  <2>2. \A kind \in Kinds \ {"failed"} :
          (Entries(kind) \cap Done)' = IF kind = turn[r].kind THEN (Entries(kind) \cap Done) \cup {e}
                                                              ELSE Entries(kind) \cap Done
    BY <1>2, <1>3, <1>4, <1>6, <2>1 DEF Entries
  <2>3. {i \in Done : status[i].usage}' =
          IF turn[r].spent THEN {i \in Done : status[i].usage} \cup {e}
                           ELSE {i \in Done : status[i].usage}
    BY <1>1, <1>2, <1>3, <1>4, <2>1
  <2>4. /\ counters'[turn[r].kind] = counters[turn[r].kind] + 1
        /\ counters'.tokens = counters.tokens + IF turn[r].spent THEN 1 ELSE 0
        /\ \A c \in (Kinds \cup {"requests"}) \ {turn[r].kind} : counters'[c] = counters[c]
    BY <1>7, <1>9, <2>1 DEF CountOutcome, Kinds
  <2>5. \A kind \in Kinds \ {"failed"} :
          counters'[kind] = Cardinality((Entries(kind) \cap Done)')
    <3> SUFFICES ASSUME NEW kind \in Kinds \ {"failed"}
                 PROVE  counters'[kind] = Cardinality((Entries(kind) \cap Done)')
      OBVIOUS
    <3>1. IsFiniteSet(Entries(kind) \cap Done) /\ e \notin Entries(kind) \cap Done
      BY <1>3, CountedFinite DEF Entries, Done
    <3> DEFINE S == Entries(kind) \cap Done
    <3>2. counters[kind] = Cardinality(S)
      BY DEF CountInv
    <3>3. S' = IF kind = turn[r].kind THEN S \cup {e} ELSE S
      BY <2>2
    <3>4. counters'[kind] = IF kind = turn[r].kind THEN counters[kind] + 1 ELSE counters[kind]
      BY <2>4
    <3> HIDE DEF S
    <3>5. CASE kind = turn[r].kind
      BY <3>1, <3>2, <3>3, <3>4, <3>5, OneMore DEF S
    <3>6. CASE kind # turn[r].kind
      BY <3>2, <3>3, <3>4, <3>6 DEF S
    <3> QED
      BY <3>5, <3>6
  <2>6. counters'.tokens = Cardinality({i \in Done : status[i].usage}')
    <3>1. IsFiniteSet({i \in Done : status[i].usage}) /\ e \notin {i \in Done : status[i].usage}
      BY <1>3, CountedFinite DEF Done
    <3>2. counters.tokens = Cardinality({i \in Done : status[i].usage})
      BY DEF CountInv
    <3> DEFINE S == {i \in Done : status[i].usage}
    <3> HIDE DEF S
    <3>3. Cardinality(S \cup {e}) = Cardinality(S) + 1
      BY <3>1, OneMore DEF S
    <3>4. S' = (IF turn[r].spent THEN S \cup {e} ELSE S) /\ counters.tokens = Cardinality(S)
      BY <2>3, <3>2 DEF S
    <3>5. CASE turn[r].spent
      BY <2>4, <3>3, <3>4, <3>5 DEF S
    <3>6. CASE ~turn[r].spent
      <4>1. counters.tokens \in Nat
        BY <1>7
      <4>2. counters'.tokens = counters.tokens
        BY <2>4, <3>6, <4>1
      <4> QED
        BY <3>4, <3>6, <4>2 DEF S
    <3> QED
      BY <3>5, <3>6
  <2>7. counters'.requests = counters.requests /\ counters'.failed = counters.failed
    BY <2>1, <2>4 DEF Kinds
  <2> QED
    BY <1>1, <1>5, <1>6, <2>5, <2>6, <2>7 DEF CountInv, Kinds
<1> QED
  BY <1>8, <1>9

\* Every step of the process keeps the records and the counts in step.
LEMMA RecordStep ==
  ASSUME SafeInv, RecordInv, CountInv, [Next]_vars
  PROVE  RecordInv' /\ CountInv'
<1>1. ASSUME NEW r \in Requests, Handler(r) PROVE RecordInv' /\ CountInv'
  <2>1. CASE Push(r)
    BY <1>1, <2>1, HandlerRecord, CountPush
  <2>2. CASE Write(r) \/ CountOutcome(r)
    BY <1>1, <2>2, HandlerRecord, CountAfter
  <2>3. CASE ~Push(r) /\ ~Write(r) /\ ~CountOutcome(r)
    <3>1. pc[r] \notin Pushed /\ pc'[r] \notin Pushed
      BY <1>1, <2>3 DEF Handler, Arrive, Reject, Admit, Lookup, RunSucceeds, RunFails,
        CountFailure, Pushed, SafeInv, TypeOK
    <3> QED
      BY <1>1, <3>1, HandlerRecord, CountBefore
  <2> QED
    BY <2>1, <2>2, <2>3
<1>2. CASE ~\E r \in Requests : Handler(r)
  BY <1>2, SystemKeepsRecords, RecordsKept DEF Next, Ended
<1> QED
  BY <1>1, <1>2

\* Every state in use comes from one file that loaded, and counters, entries and
\* requests agree halfway through every handler, whatever the operator writes and
\* however reloads, requests and the shutdown interleave.
THEOREM Invariance == Spec => []IInv
<1>1. Init => IInv
  <2> SUFFICES ASSUME Init PROVE IInv
    OBVIOUS
  <2>1. status \in Seq([req : Requests, kind : Kinds, usage : BOOLEAN])
    BY EmptySeq DEF Init
  <2>2. turn \in [Requests -> [model : Models \cup {"none"},
                                kind : Kinds \cup {"none"}, spent : BOOLEAN]]
    BY DEF Init, NoTurn
  <2>3. TypeOK
    BY <2>1, <2>2 DEF Init, TypeOK, Places
  <2>4. StateInv
    BY DEF Init, StateInv, Whole
  <2>5. TurnInv /\ ProviderFound
    BY DEF Init, TurnInv, ProviderFound
  <2>6. DOMAIN status = {} /\ Len(status) = 0
    BY <2>1, EmptySeq, LenProperties DEF Init
  <2>7. RecordInv
    BY <2>6 DEF Init, RecordInv, At, Pushed
  <2>8. CountInv
    <3>1. Unrecorded = {} /\ Failing = {} /\ Done = {}
      BY <2>6 DEF Init, Unrecorded, Failing, Done, At
    <3>2. \A kind \in Kinds : Entries(kind) = {}
      BY <2>6 DEF Entries
    <3>3. IsFiniteSet({}) /\ Cardinality({}) = 0
      BY FS_EmptySet
    <3>4. \A c \in Kinds \cup {"requests", "tokens"} : counters[c] = 0
      BY DEF Init
    <3>5. \A kind \in Kinds : Entries(kind) \cap Done = {}
      BY <3>1
    <3>6. {i \in Done : status[i].usage} = {}
      BY <3>1
    <3>7. "failed" \in Kinds
      BY DEF Kinds
    <3>8. /\ counters.requests = Len(status) + Cardinality(Unrecorded)
          /\ counters.failed = Cardinality(Entries("failed")) + Cardinality(Failing)
      <4>1. counters["requests"] = 0 /\ counters["failed"] = 0
        BY <3>4, <3>7
      <4>2. Cardinality(Unrecorded) = 0 /\ Cardinality(Failing) = 0
        BY <3>1, <3>3
      <4>3. Cardinality(Entries("failed")) = 0
        BY <3>2, <3>3, <3>7
      <4> QED
        BY <2>6, <4>1, <4>2, <4>3
    <3>9. \A kind \in Kinds \ {"failed"} :
            counters[kind] = Cardinality(Entries(kind) \cap Done)
      BY <3>3, <3>4, <3>5
    <3>10. counters.tokens = Cardinality({i \in Done : status[i].usage})
      BY <3>3, <3>4, <3>6
    <3> QED
      BY <3>1, <3>3, <3>8, <3>9, <3>10 DEF CountInv
  <2> QED
    BY <2>3, <2>4, <2>5, <2>7, <2>8 DEF IInv, SafeInv
<1>2. IInv /\ [Next]_vars => IInv'
  BY Step, RecordStep DEF IInv
<1> QED
  BY <1>1, <1>2, PTL DEF Spec

\* Every turn runs with a quorum its panel can reach and a timeout, also where
\* the file leaves them out (config.go:148-155, 214-222).
THEOREM TurnsAlwaysUsable == Spec => []TurnsUsable
<1>1. IInv => TurnsUsable
  BY WholeStates DEF IInv, SafeInv, StateInv, TurnInv, TurnsUsable
<1> QED
  BY <1>1, Invariance, PTL

\* A turn finds every provider its model names, however often the configuration
\* is swapped under it (server.go:70-81, 146; main.go:93-108).
THEOREM ProviderAlwaysFound == Spec => []ProviderFound
<1>1. IInv => ProviderFound
  BY DEF IInv, SafeInv
<1> QED
  BY <1>1, Invariance, PTL

\* Whenever no handler is under way, the counters of /metrics, the entries of
\* /admin/status and the requests tell one story, although each handler moves them
\* one at a time, a failed turn's counter before its entry and any other one's
\* after (server.go:203-244).
THEOREM AlwaysReconciled == Spec => []Reconciled
<1>1. IInv => Reconciled
  <2> SUFFICES ASSUME IInv, \A r \in Requests : pc[r] \notin InHandler
               PROVE  /\ \A kind \in Kinds : counters[kind] = Cardinality(Entries(kind))
                      /\ counters.requests = Len(status)
                      /\ counters.tokens = Cardinality({i \in DOMAIN status : status[i].usage})
                      /\ \A i, j \in DOMAIN status : status[i].req = status[j].req => i = j
                      /\ snapshots \subseteq {status[i].req : i \in DOMAIN status}
    BY DEF Reconciled
  <2>1. Unrecorded = {} /\ Failing = {}
    BY DEF Unrecorded, Failing, At, InHandler
  <2>2. Cardinality(Unrecorded) = 0 /\ Cardinality(Failing) = 0
    BY <2>1, FS_EmptySet
  <2>3. Done = DOMAIN status
    BY EntryType DEF IInv, RecordInv, Pushed, InHandler, Done
  <2>4. \A kind \in Kinds : Entries(kind) \cap Done = Entries(kind)
    BY <2>3 DEF Entries
  <2>5. Len(status) \in Nat /\ Cardinality(Entries("failed")) \in Nat
    BY EntryType, CountedFinite DEF IInv, Entries
  <2> QED
    BY <2>2, <2>3, <2>4, <2>5 DEF IInv, RecordInv, CountInv
<1> QED
  BY <1>1, Invariance, PTL
=============================================================================
