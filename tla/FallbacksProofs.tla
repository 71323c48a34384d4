-------------------------- MODULE FallbacksProofs --------------------------
(***************************************************************************)
(* For any servers, any scrapers side by side and any number of failures:  *)
(* a nil of Scrape means that a result was read; rows of                   *)
(* ndbinfo.transporters lack a column only for a cause, and only scrapes   *)
(* that another one's fall of the flag has overtaken mix the two forms;    *)
(* the pool of a request is never exceeded, a lost result answers for a    *)
(* failure, and a scraper that meets no failure returns what its server    *)
(* has.                                                                    *)
(*                                                                         *)
(* Typed says where a scraper may be.  ReadCounts relates the steps to the *)
(* results that were read; Column says what the flag, the queries and the  *)
(* rows sent tell of the servers asked; OneForm says that a scrape that    *)
(* the flag has not overtaken has asked for, scans and sends what the flag *)
(* says.  On IInv rest three more facts:                                   *)
(*   - Fits, what a scraper may hold at each step of each kind, and        *)
(*     WithinPool, the sum of what the scrapers of a request hold;         *)
(*   - Accounted, the results that a scraper has lost or is about to lose, *)
(*     which no step raises but a failure of its own;                      *)
(*   - Serving, the forms that a scraper has found unknown on its way.     *)
(***************************************************************************)
EXTENDS Fallbacks, SumTheorems

Places == {"idle", "send", "sent", "variables", "rows", "returned"}

Positions == [to : {"query"}, q : 1..4, suffix : 0..3]

Targets == Positions \cup {Rows, Return("nil"), Return("error")}

Typed ==
  /\ pc \in [active -> Places]
  /\ at \in [active -> Positions]
  /\ withEncrypted \in [active -> BOOLEAN]
  /\ read \in [active -> Nat]
  /\ sent \in [active -> SUBSET BOOLEAN]
  /\ result \in [active -> {None, "nil", "error"}]
  /\ encrypted \in BOOLEAN
  /\ faults \in [active -> Nat]
  /\ overtaken \subseteq active
  /\ active \in Mixes

\* The scrapers that ask until one form is known, without a check.
Alternatives == {"slave_status", "slave_hosts", "transporters"}

ReadCounts ==
  \A s \in active :
    s.kind \in Alternatives =>
      /\ pc[s] # "returned" => read[s] = 0 /\ result[s] # "nil"
      /\ result[s] = "nil" => read[s] = 1

QueryOfTransporters ==
  \A s \in active :
    s.kind = "transporters" => at[s].q \in {1, 2} /\ at[s].suffix = 0

Column ==
  /\ ~encrypted => Excused
  /\ \A s \in active :
       /\ FALSE \in sent[s] => ~encrypted
       /\ TRUE \in sent[s] => HasColumn(s)
       /\ s.kind = "transporters" /\ at[s].q = 2 => ~encrypted
       /\ s.kind = "transporters" /\ at[s].q = 1 /\ pc[s] \in {"variables", "rows"} =>
            HasColumn(s)

OneForm ==
  \A s \in active :
    s.kind = "transporters" /\ s \notin overtaken =>
      /\ pc[s] \in {"idle", "send", "sent", "variables"} => sent[s] = {}
      /\ AtWork(s) => (at[s].q = 1 <=> encrypted) /\ sent[s] \subseteq {encrypted}
      /\ pc[s] = "rows" => withEncrypted[s] = encrypted
      /\ sent[s] # BOOLEAN

IInv == Typed /\ ReadCounts /\ QueryOfTransporters /\ Column /\ OneForm

-----------------------------------------------------------------------------
(* Where the answers lead *)

LEMMA KindsOfActive ==
  ASSUME Typed, NEW s \in active
  PROVE  s.kind \in Kinds
BY FallbacksAssumption DEF Typed

LEMMA SlaveStatusTargets ==
  ASSUME NEW p \in Positions, NEW answer
  PROVE  SlaveStatusNext(p, answer) \in Targets /\ SlaveStatusNext(p, answer).to # "nil"
BY DEF SlaveStatusNext, Targets, Positions, Suffix, Query, Rows, Return

LEMMA SlaveHostsTargets ==
  ASSUME NEW p \in Positions, NEW answer
  PROVE  SlaveHostsNext(p, answer) \in Targets /\ SlaveHostsNext(p, answer).to # "nil"
BY DEF SlaveHostsNext, Targets, Positions, Rows, Query, Return

\* Only the query with the column is followed by another one.
LEMMA TransportersTargets ==
  ASSUME NEW p \in Positions, NEW answer
  PROVE  /\ answer = "ok" => TransportersNext(p, answer) = Rows
         /\ answer # "ok" /\ p.q = 1 => TransportersNext(p, answer) = Query(2)
         /\ answer # "ok" /\ p.q # 1 => TransportersNext(p, answer) = Return("error")
         /\ TransportersNext(p, answer) \in Targets
         /\ TransportersNext(p, answer).to # "nil"
<1>1. /\ Rows \in Targets /\ Query(2) \in Targets /\ Return("error") \in Targets
      /\ Rows.to # "nil" /\ Query(2).to # "nil" /\ Return("error").to # "nil"
  BY DEF Targets, Positions, Rows, Query, Return
<1> QED BY <1>1 DEF TransportersNext

LEMMA OtherTargets ==
  ASSUME NEW p \in Positions, NEW answer
  PROVE  /\ ReplicaHostNext(p, answer) \in Targets
         /\ UserStatNext(p, answer) \in Targets
         /\ QueryResponseTimeNext(p, answer) \in Targets
         /\ BinlogSizeNext(p, answer) \in Targets
<1>1. {Rows, Query(2), Query(4), Return("nil"), Return("error")} \subseteq Targets
  BY DEF Targets, Positions, Query
<1> QED
  BY <1>1 DEF ReplicaHostNext, UserStatNext, QueryResponseTimeNext, BinlogSizeNext

\* An answer leads to a query, to rows or to a return; those with alternatives
\* do not return nil on it.
LEMMA AfterTargets ==
  ASSUME NEW kind \in Kinds, NEW p \in Positions, NEW answer
  PROVE  /\ After(kind, p, answer) \in Targets
         /\ kind \in Alternatives => After(kind, p, answer).to # "nil"
         /\ kind = "transporters" => After(kind, p, answer) = TransportersNext(p, answer)
<1>1. CASE kind = "slave_status"
  BY <1>1, SlaveStatusTargets DEF After
<1>2. CASE kind = "slave_hosts"
  BY <1>2, SlaveHostsTargets DEF After
<1>3. CASE kind = "transporters"
  BY <1>3, TransportersTargets DEF After
<1>4. CASE kind \in {"replica_host", "userstats", "query_response_time", "binlog_size"}
  BY <1>4, OtherTargets DEF After, Alternatives
<1> QED BY <1>1, <1>2, <1>3, <1>4 DEF Kinds

LEMMA AfterRowsTargets ==
  ASSUME NEW kind, NEW p \in Positions
  PROVE  /\ AfterRows(kind, p) \in Targets
         /\ kind \in Alternatives => AfterRows(kind, p) = Return("nil")
BY DEF AfterRows, Targets, Positions, Alternatives, Query, Return

\* What GoTo does to the scraper that goes; the others stay where they are.
LEMMA GoToEffect ==
  ASSUME Typed, NEW s \in active, NEW p \in Targets, NEW opened, GoTo(s, p, opened)
  PROVE  /\ pc' \in [active -> Places] /\ at' \in [active -> Positions]
         /\ result' \in [active -> {None, "nil", "error"}]
         /\ \A t \in active \ {s} : pc'[t] = pc[t] /\ at'[t] = at[t] /\ result'[t] = result[t]
         /\ p.to = "query" => pc'[s] = "send" /\ at'[s] = p /\ result'[s] = result[s]
         /\ p.to = "rows" => pc'[s] = "variables" /\ at'[s] = at[s] /\ result'[s] = result[s]
         /\ p.to \in {"nil", "error"} =>
              pc'[s] = "returned" /\ at'[s] = at[s] /\ result'[s] = p.to
<1>1. CASE p \in Positions
  <2>1. p.to = "query"
    BY <1>1 DEF Positions
  <2>2. pc' = [pc EXCEPT ![s] = "send"] /\ at' = [at EXCEPT ![s] = p] /\ result' = result
    BY <2>1 DEF GoTo
  <2> QED BY <1>1, <2>1, <2>2 DEF Typed, Places
<1>2. CASE p = Rows
  <2>1. p.to = "rows"
    BY <1>2 DEF Rows
  <2>2. pc' = [pc EXCEPT ![s] = "variables"] /\ at' = at /\ result' = result
    BY <2>1 DEF GoTo
  <2> QED BY <2>1, <2>2 DEF Typed, Places
<1>3. CASE p \in {Return("nil"), Return("error")}
  <2>1. p.to \in {"nil", "error"}
    BY <1>3 DEF Return
  <2>2. /\ pc' = [pc EXCEPT ![s] = "returned"] /\ at' = at
        /\ result' = [result EXCEPT ![s] = p.to]
    BY <2>1 DEF GoTo
  <2> QED BY <2>1, <2>2 DEF Typed, Places
<1> QED BY <1>1, <1>2, <1>3 DEF Targets

-----------------------------------------------------------------------------
(* The inductive invariant *)

\* No failure is forgotten.
Grows == faults' \in [active -> Nat] /\ \A t \in active : faults'[t] >= faults[t]

LEMMA FaultGrows ==
  ASSUME Typed, NEW s \in active, Fault(s)
  PROVE  /\ Grows /\ faults[s] < MaxFaults /\ faults'[s] = faults[s] + 1
         /\ \A t \in active \ {s} : faults'[t] = faults[t]
BY DEF Typed, Fault, Grows

LEMMA NoFault == ASSUME Typed, UNCHANGED faults PROVE Grows
BY DEF Typed, Grows

\* A cause to drop the column stays one.
LEMMA ExcusedStays ==
  ASSUME Typed, UNCHANGED <<server, active>>, Grows, ended \subseteq ended', Excused
  PROVE  Excused'
<1>1. PICK t \in active : t.kind = "transporters" /\ ~(HasColumn(t) /\ Undisturbed(t))
  BY DEF Excused
<1>2. HasColumn(t)' <=> HasColumn(t)
  BY DEF HasColumn, Knows
<1>3. Undisturbed(t)' => Undisturbed(t)
  <2>1. faults[t] \in Nat /\ faults'[t] \in Nat /\ faults'[t] >= faults[t]
    BY DEF Typed, Grows
  <2>2. faults'[t] = 0 => faults[t] = 0
    BY <2>1
  <2> QED BY <2>2 DEF Undisturbed
<1> QED BY <1>1, <1>2, <1>3 DEF Excused

\* A step of one scraper that sends no row.
LEMMA ColumnStays ==
  ASSUME Column, NEW s \in active, UNCHANGED <<server, active, sent>>,
         encrypted' => encrypted, ~encrypted' => Excused',
         \A t \in active \ {s} : pc'[t] = pc[t] /\ at'[t] = at[t],
         s.kind = "transporters" /\ at'[s].q = 2 => ~encrypted',
         s.kind = "transporters" /\ at'[s].q = 1 /\ pc'[s] \in {"variables", "rows"} =>
           HasColumn(s)
  PROVE  Column'
<1>1. \A t \in active : HasColumn(t)' <=> HasColumn(t)
  BY DEF HasColumn, Knows
<1> SUFFICES ASSUME NEW t \in active
             PROVE  /\ FALSE \in sent[t] => ~encrypted'
                    /\ TRUE \in sent[t] => HasColumn(t)
                    /\ t.kind = "transporters" /\ at'[t].q = 2 => ~encrypted'
                    /\ t.kind = "transporters" /\ at'[t].q = 1 /\
                       pc'[t] \in {"variables", "rows"} => HasColumn(t)
  BY <1>1 DEF Column
<1>2. CASE t = s
  BY <1>2 DEF Column
<1>3. CASE t # s
  BY <1>3 DEF Column
<1> QED BY <1>2, <1>3

\* Nothing has been asked when the scrapers start.  (the beginning of each Scrape)
LEMMA InitEstablishes == Init => IInv
<1> SUFFICES ASSUME Init PROVE IInv
  OBVIOUS
<1>1. Query(1) \in Positions /\ Query(1).q = 1 /\ Query(1).suffix = 0
  BY DEF Query, Positions
<1>2. Typed
  BY <1>1 DEF Init, Typed, Places
<1>3. ReadCounts
  BY FallbacksAssumption DEF Init, ReadCounts
<1>4. QueryOfTransporters
  BY <1>1 DEF Init, QueryOfTransporters
<1>5. encrypted /\ \A s \in active : pc[s] = "idle" /\ sent[s] = {} /\ at[s].q = 1
  BY <1>1 DEF Init
<1>6. Column
  <2>1. \A s \in active : FALSE \notin sent[s] /\ TRUE \notin sent[s]
    BY <1>5
  <2>2. \A s \in active : at[s].q # 2 /\ pc[s] \notin {"variables", "rows"}
    BY <1>5
  <2> QED BY <1>5, <2>1, <2>2 DEF Column
<1>7. OneForm
  BY <1>5 DEF OneForm, AtWork
<1> QED BY <1>2, <1>3, <1>4, <1>6, <1>7 DEF IInv

LEMMA BeginKeeps == ASSUME IInv, NEW s \in active, Begin(s) PROVE IInv'
<1> DEFINE p == First(s.kind)
<1>1. /\ p \in Targets /\ p.to = "query" /\ p.q \in {1, 2} /\ p.suffix = 0
      /\ s.kind = "transporters" => (p.q = 1 <=> encrypted)
  BY DEF First, Query, Targets, Positions
<1>2. /\ pc[s] = "idle" /\ GoTo(s, p, 0)
      /\ UNCHANGED <<server, active, withEncrypted, read, sent, encrypted, ended, faults, overtaken>>
  BY DEF Begin
<1> HIDE DEF p
<1>3. /\ pc' \in [active -> Places] /\ at' \in [active -> Positions]
      /\ result' \in [active -> {None, "nil", "error"}]
      /\ \A t \in active \ {s} : pc'[t] = pc[t] /\ at'[t] = at[t] /\ result'[t] = result[t]
      /\ pc'[s] = "send" /\ at'[s] = p /\ result'[s] = result[s]
  BY <1>1, <1>2, GoToEffect DEF IInv
<1>4. Typed'
  BY <1>2, <1>3 DEF IInv, Typed
<1>5. ReadCounts'
  BY <1>2, <1>3 DEF IInv, ReadCounts
<1>6. QueryOfTransporters'
  BY <1>1, <1>2, <1>3 DEF IInv, QueryOfTransporters
<1>7. Column'
  <2>1. ~encrypted' => Excused'
    BY <1>2, NoFault, ExcusedStays DEF IInv, Column
  <2>2. s.kind = "transporters" /\ at'[s].q = 2 => ~encrypted'
    BY <1>1, <1>2, <1>3
  <2>3. ~(pc'[s] \in {"variables", "rows"})
    BY <1>3
  <2> QED BY <1>2, <1>3, <2>1, <2>2, <2>3, ColumnStays DEF IInv
<1>8. OneForm'
  <2> SUFFICES ASSUME NEW t \in active, t.kind = "transporters", t \notin overtaken
               PROVE  /\ pc'[t] \in {"idle", "send", "sent", "variables"} => sent[t] = {}
                      /\ pc'[t] \notin {"idle", "returned"} =>
                           (at'[t].q = 1 <=> encrypted) /\ sent[t] \subseteq {encrypted}
                      /\ pc'[t] = "rows" => withEncrypted[t] = encrypted
                      /\ sent[t] # BOOLEAN
    BY <1>2 DEF OneForm, AtWork
  <2>1. CASE t = s
    BY <1>1, <1>2, <1>3, <2>1 DEF IInv, OneForm
  <2>2. CASE t # s
    BY <1>3, <2>2 DEF IInv, OneForm, AtWork
  <2> QED BY <2>1, <2>2
<1> QED BY <1>4, <1>5, <1>6, <1>7, <1>8 DEF IInv

LEMMA SendKeeps == ASSUME IInv, NEW s \in active, Send(s) PROVE IInv'
<1>1. /\ pc[s] = "send" /\ pc' = [pc EXCEPT ![s] = "sent"]
      /\ UNCHANGED <<server, active, at, withEncrypted, read, sent, result, encrypted,
                     ended, faults, overtaken>>
  BY DEF Send
<1>2. Typed' /\ QueryOfTransporters'
  BY <1>1 DEF IInv, Typed, Places, QueryOfTransporters
<1>3. ReadCounts'
  BY <1>1 DEF IInv, ReadCounts, Typed
<1>4. OneForm'
  BY <1>1 DEF IInv, OneForm, AtWork, Typed
<1>5. Column'
  <2>1. ~encrypted' => Excused'
    BY <1>1, NoFault, ExcusedStays DEF IInv, Column
  <2>2. pc'[s] = "sent" /\ \A t \in active \ {s} : pc'[t] = pc[t]
    BY <1>1 DEF IInv, Typed
  <2> QED BY <1>1, <2>1, <2>2, ColumnStays DEF IInv, Column
<1> QED BY <1>2, <1>3, <1>4, <1>5 DEF IInv

LEMMA VariablesKeeps == ASSUME IInv, NEW s \in active, Variables(s) PROVE IInv'
<1>1. /\ pc[s] = "variables" /\ pc' = [pc EXCEPT ![s] = "rows"]
      /\ withEncrypted' = [withEncrypted EXCEPT ![s] = s.kind = "transporters" /\ encrypted]
      /\ UNCHANGED <<server, active, at, read, sent, result, encrypted, ended, faults, overtaken>>
  BY DEF Variables
<1>2. (s.kind = "transporters" /\ encrypted) \in BOOLEAN
  OBVIOUS
<1>3. withEncrypted' \in [active -> BOOLEAN] /\ pc' \in [active -> Places]
  BY <1>1, <1>2 DEF IInv, Typed, Places
<1>4. Typed' /\ QueryOfTransporters'
  BY <1>1, <1>3 DEF IInv, Typed, QueryOfTransporters
<1>5. ReadCounts'
  BY <1>1 DEF IInv, ReadCounts, Typed
<1>6. OneForm'
  BY <1>1 DEF IInv, OneForm, AtWork, Typed
<1>7. Column'
  <2>1. ~encrypted' => Excused'
    BY <1>1, NoFault, ExcusedStays DEF IInv, Column
  <2>2. \A t \in active \ {s} : pc'[t] = pc[t]
    BY <1>1 DEF IInv, Typed
  <2> QED BY <1>1, <2>1, <2>2, ColumnStays DEF IInv, Column
<1> QED BY <1>4, <1>5, <1>6, <1>7 DEF IInv

\* A row is sent as the flag is, by a scrape whose columns fit.
LEMMA ScanKeeps == ASSUME IInv, NEW s \in active, Scan(s) PROVE IInv'
<1>1. /\ pc[s] = "rows" /\ ~Mismatch(s)
      /\ UNCHANGED <<server, active, pc, at, withEncrypted, read, result, encrypted, ended,
                     faults, overtaken>>
  BY DEF Scan
<1>2. (~encrypted' => Excused') /\ \A t \in active : HasColumn(t)' <=> HasColumn(t)
  BY <1>1, NoFault, ExcusedStays DEF IInv, Column, HasColumn, Knows
<1>3. CASE s.kind # "transporters"
  <2>1. sent' = sent
    BY <1>3 DEF Scan
  <2>2. Typed' /\ QueryOfTransporters' /\ ReadCounts'
    BY <1>1, <2>1 DEF IInv, Typed, QueryOfTransporters, ReadCounts
  <2>3. OneForm'
    BY <1>1, <2>1 DEF IInv, OneForm, AtWork
  <2>4. Column'
    BY <1>1, <1>2, <2>1, ColumnStays DEF IInv, Column
  <2> QED BY <2>2, <2>3, <2>4 DEF IInv
<1>4. CASE s.kind = "transporters"
  <2>1. sent' = [sent EXCEPT ![s] = @ \cup {encrypted}]
    BY <1>4 DEF Scan
  <2>2. Typed' /\ QueryOfTransporters' /\ ReadCounts'
    BY <1>1, <2>1 DEF IInv, Typed, QueryOfTransporters, ReadCounts
  <2>3. OneForm'
    <3> SUFFICES ASSUME NEW t \in active, t.kind = "transporters", t \notin overtaken
                 PROVE  /\ pc[t] \in {"idle", "send", "sent", "variables"} => sent'[t] = {}
                        /\ AtWork(t) => (at[t].q = 1 <=> encrypted) /\ sent'[t] \subseteq {encrypted}
                        /\ pc[t] = "rows" => withEncrypted[t] = encrypted
                        /\ sent'[t] # BOOLEAN
      BY <1>1 DEF OneForm, AtWork
    <3>1. CASE t = s
      BY <1>1, <2>1, <3>1 DEF IInv, OneForm, AtWork, Typed
    <3>2. CASE t # s
      BY <1>1, <2>1, <3>2 DEF IInv, OneForm, AtWork, Typed
    <3> QED BY <3>1, <3>2
  <2>4. Column'
    <3>1. encrypted => HasColumn(s)
      <4>1. at[s].q \in {1, 2} /\ (at[s].q = 2 => ~encrypted)
        BY <1>4 DEF IInv, Column, QueryOfTransporters
      <4>2. at[s].q = 1 => HasColumn(s)
        BY <1>1, <1>4 DEF IInv, Column
      <4> QED BY <4>1, <4>2
    <3>2. \A t \in active : FALSE \in sent'[t] => ~encrypted
      BY <1>1, <2>1 DEF IInv, Typed, Column
    <3>3. \A t \in active : TRUE \in sent'[t] => HasColumn(t)
      BY <1>1, <2>1, <3>1 DEF IInv, Typed, Column
    <3> QED BY <1>1, <1>2, <3>2, <3>3 DEF IInv, Column
  <2> QED BY <2>2, <2>3, <2>4 DEF IInv
<1> QED BY <1>3, <1>4

LEMMA EncryptedText ==
  ASSUME NEW p \in Positions, p.q = 1, p.suffix = 0
  PROVE  Text("transporters", p) = <<"transporters, encrypted", "">>
<1>1. Statement("transporters", p.q) = <<"transporters, encrypted", "transporters">>[p.q]
  BY DEF Statement
<1>2. <<"transporters, encrypted", "transporters">>[1] = "transporters, encrypted"
  OBVIOUS
<1>3. Statement("transporters", p.q) = "transporters, encrypted"
  BY <1>1, <1>2
<1> QED BY <1>3 DEF Text

\* An answer, or its failure: the flag falls together with the query that has the column,
\* and whoever else is at work then is overtaken.
LEMMA TakeKeeps ==
  ASSUME IInv, NEW s \in active, NEW answer, Take(s, answer), pc[s] \in {"send", "sent"},
         Grows, answer = "ok" => Known(s),
         s.kind = "transporters" /\ answer # "ok" =>
           faults'[s] > 0 \/ s.request \in ended \/ ~Known(s)
  PROVE  IInv'
<1> DEFINE p == After(s.kind, at[s], answer)
<1>1. at[s] \in Positions /\ s.kind \in Kinds
  BY KindsOfActive DEF IInv, Typed
<1>2. /\ p \in Targets
      /\ s.kind \in Alternatives => p.to # "nil"
      /\ s.kind = "transporters" => p = TransportersNext(at[s], answer)
  BY <1>1, AfterTargets
<1>3. /\ encrypted' = (encrypted /\ ~FlagFalls(s, answer))
      /\ overtaken' = IF encrypted /\ ~encrypted'
                   THEN overtaken \cup {t \in active \ {s} : AtWork(t)} ELSE overtaken
      /\ UNCHANGED <<server, active, withEncrypted, read, sent, ended>>
  BY DEF Take
<1>4. PICK opened : GoTo(s, p, opened)
  BY DEF Take
<1> HIDE DEF p
<1>5. p.to \in {"query", "rows", "nil", "error"}
  BY <1>2 DEF Targets, Positions, Rows, Return
<1>6. /\ pc' \in [active -> Places] /\ at' \in [active -> Positions]
      /\ result' \in [active -> {None, "nil", "error"}]
      /\ \A t \in active \ {s} : pc'[t] = pc[t] /\ at'[t] = at[t] /\ result'[t] = result[t]
      /\ p.to = "query" => pc'[s] = "send" /\ at'[s] = p /\ result'[s] = result[s]
      /\ p.to = "rows" => pc'[s] = "variables" /\ at'[s] = at[s] /\ result'[s] = result[s]
      /\ p.to \in {"nil", "error"} =>
           pc'[s] = "returned" /\ at'[s] = at[s] /\ result'[s] = p.to
  BY <1>2, <1>4, GoToEffect DEF IInv
<1>7. encrypted' \in BOOLEAN /\ overtaken' \subseteq active
  BY <1>3 DEF IInv, Typed
<1>8. Typed'
  BY <1>3, <1>6, <1>7 DEF IInv, Typed, Grows
<1>9. ReadCounts'
  BY <1>2, <1>3, <1>5, <1>6 DEF IInv, ReadCounts
<1>10. s.kind = "transporters" =>
         /\ answer = "ok" => p.to = "rows"
         /\ answer # "ok" /\ at[s].q = 1 => p.to = "query" /\ p.q = 2 /\ p.suffix = 0
         /\ answer # "ok" /\ at[s].q # 1 => p.to = "error"
  BY <1>1, <1>2, TransportersTargets DEF Rows, Query, Return
<1>11. QueryOfTransporters'
  BY <1>3, <1>5, <1>6, <1>10 DEF IInv, QueryOfTransporters
<1>12. s.kind = "transporters" /\ at[s].q = 1 => (Known(s) <=> HasColumn(s))
  <2> SUFFICES ASSUME s.kind = "transporters", at[s].q = 1
               PROVE  Known(s) <=> HasColumn(s)
    OBVIOUS
  <2>1. at[s].suffix = 0
    BY DEF IInv, QueryOfTransporters
  <2>2. Text(s.kind, at[s]) = <<"transporters, encrypted", "">>
    BY <1>1, <2>1, EncryptedText
  <2> QED BY <2>2 DEF Known, HasColumn, Knows
<1>13. Column'
  <2>1. encrypted' => encrypted
    BY <1>3
  <2>2. ~encrypted' => Excused'
    <3>1. CASE ~encrypted
      BY <1>3, <3>1, ExcusedStays DEF IInv, Column
    <3>2. CASE encrypted
      <4> SUFFICES ASSUME ~encrypted' PROVE Excused'
        OBVIOUS
      <4>1. s.kind = "transporters" /\ at[s].q = 1 /\ answer # "ok"
        BY <1>3, <3>2 DEF FlagFalls
      <4>2. faults'[s] > 0 \/ s.request \in ended \/ ~HasColumn(s)
        BY <1>12, <4>1
      <4>3. faults'[s] > 0 => faults'[s] # 0
        BY DEF Grows
      <4>4. ~HasColumn(s)' \/ ~Undisturbed(s)'
        <5>1. HasColumn(s)' <=> HasColumn(s)
          BY <1>3 DEF HasColumn, Knows
        <5> QED BY <1>3, <4>2, <4>3, <5>1 DEF Undisturbed
      <4> QED BY <1>3, <4>1, <4>4 DEF Excused
    <3> QED BY <3>1, <3>2
  <2>3. s.kind = "transporters" /\ at'[s].q = 2 => ~encrypted'
    <3> SUFFICES ASSUME s.kind = "transporters", at'[s].q = 2, encrypted' PROVE FALSE
      OBVIOUS
    <3>1. at[s].q = 1 /\ ~FlagFalls(s, answer)
      BY <1>3 DEF IInv, Column, QueryOfTransporters
    <3>2. answer = "ok"
      BY <3>1 DEF FlagFalls
    <3>3. at'[s] = at[s]
      BY <1>6, <1>10, <3>2
    <3> QED BY <3>1, <3>3
  <2>4. s.kind = "transporters" /\ at'[s].q = 1 /\ pc'[s] \in {"variables", "rows"} =>
          HasColumn(s)
    <3> SUFFICES ASSUME s.kind = "transporters", at'[s].q = 1, pc'[s] \in {"variables", "rows"}
                 PROVE  HasColumn(s)
      OBVIOUS
    <3>1. p.to = "rows"
      BY <1>5, <1>6
    <3>2. answer = "ok"
      BY <1>10, <3>1 DEF IInv, QueryOfTransporters
    <3>3. at[s].q = 1
      BY <1>6, <3>1
    <3> QED BY <1>12, <3>2, <3>3
  <2> QED BY <1>3, <1>6, <2>1, <2>2, <2>3, <2>4, ColumnStays DEF IInv
<1>14. OneForm'
  <2> SUFFICES ASSUME NEW t \in active, t.kind = "transporters", t \notin overtaken'
               PROVE  /\ pc'[t] \in {"idle", "send", "sent", "variables"} => sent[t] = {}
                      /\ pc'[t] \notin {"idle", "returned"} =>
                           (at'[t].q = 1 <=> encrypted') /\ sent[t] \subseteq {encrypted'}
                      /\ pc'[t] = "rows" => withEncrypted[t] = encrypted'
                      /\ sent[t] # BOOLEAN
    BY <1>3 DEF OneForm, AtWork
  <2>1. t \notin overtaken
    BY <1>3
  <2>2. CASE t = s
    <3>1. sent[s] = {} /\ (at[s].q = 1 <=> encrypted) /\ sent[s] # BOOLEAN
      BY <2>1, <2>2 DEF IInv, OneForm, AtWork
    <3>2. answer # "ok" /\ at[s].q = 1 => ~encrypted'
      BY <1>3, <2>2 DEF FlagFalls
    <3>3. ~(answer # "ok" /\ at[s].q = 1) => encrypted' = encrypted
      BY <1>3, <2>2 DEF FlagFalls, IInv, Typed
    <3>4. pc'[s] \in {"send", "variables", "returned"}
      BY <1>5, <1>6
    <3>5. pc'[s] # "returned" => (at'[s].q = 1 <=> encrypted')
      BY <1>6, <1>10, <2>2, <3>1, <3>2, <3>3
    <3> QED BY <2>2, <3>1, <3>4, <3>5
  <2>3. CASE t # s
    <3>1. pc'[t] = pc[t] /\ at'[t] = at[t]
      BY <1>6, <2>3
    <3>2. encrypted' = encrypted \/ ~AtWork(t)
      BY <1>3, <2>3 DEF IInv, Typed
    <3> QED BY <2>1, <3>1, <3>2 DEF IInv, OneForm, AtWork
  <2> QED BY <2>2, <2>3
<1> QED BY <1>8, <1>9, <1>11, <1>13, <1>14 DEF IInv

\* The four ends of a query.
LEMMA AnswerKeeps ==
  ASSUME IInv, NEW s \in active, Answers(s) \/ IsUnknown(s) \/ Fails(s) \/ NotSent(s)
  PROVE  IInv'
<1>0. Typed
  BY DEF IInv
<1>1. CASE Answers(s)
  <2>1. s.kind = "transporters" => ~IsOff(s)
    BY DEF IsOff, IsCheck
  <2> DEFINE answer == IF IsOff(s) THEN "off" ELSE "ok"
  <2>2. /\ pc[s] \in {"send", "sent"} /\ Take(s, answer) /\ faults' = faults /\ Known(s)
        /\ s.kind = "transporters" => answer = "ok"
    BY <1>1, <2>1 DEF Answers
  <2> HIDE DEF answer
  <2> QED BY <1>0, <2>2, NoFault, TakeKeeps
<1>2. CASE IsUnknown(s)
  <2>1. pc[s] \in {"send", "sent"} /\ Take(s, "unknown") /\ faults' = faults /\ ~Known(s)
    BY <1>2 DEF IsUnknown
  <2> QED BY <1>0, <2>1, NoFault, TakeKeeps
<1>3. CASE Fails(s)
  <2>1. pc[s] \in {"send", "sent"} /\ Take(s, "error") /\ Fault(s)
    BY <1>3 DEF Fails
  <2>2. Grows /\ faults'[s] > 0
    BY <1>0, <2>1, FaultGrows DEF Typed
  <2> QED BY <2>1, <2>2, TakeKeeps
<1>4. CASE NotSent(s)
  <2>1. pc[s] \in {"send", "sent"} /\ Take(s, "error") /\ faults' = faults /\ s.request \in ended
    BY <1>4 DEF NotSent
  <2> QED BY <1>0, <2>1, NoFault, TakeKeeps
<1> QED BY <1>1, <1>2, <1>3, <1>4

\* The end of a result, by its last row or by an error of Scan.
LEMMA ResultEnds ==
  ASSUME IInv, NEW s \in active, NEW p \in Targets, NEW opened, GoTo(s, p, opened),
         pc[s] = "rows",
         UNCHANGED <<server, active, withEncrypted, sent, encrypted, ended, overtaken>>,
         read' \in [active -> Nat], \A t \in active \ {s} : read'[t] = read[t], Grows,
         s.kind \in Alternatives => p.to \in {"nil", "error"},
         s.kind \in Alternatives /\ p.to = "nil" => read'[s] = 1
  PROVE  IInv'
<1>1. /\ pc' \in [active -> Places] /\ at' \in [active -> Positions]
      /\ result' \in [active -> {None, "nil", "error"}]
      /\ \A t \in active \ {s} : pc'[t] = pc[t] /\ at'[t] = at[t] /\ result'[t] = result[t]
      /\ p.to \in {"nil", "error"} =>
           pc'[s] = "returned" /\ at'[s] = at[s] /\ result'[s] = p.to
  BY GoToEffect DEF IInv
<1>2. Typed'
  BY <1>1 DEF IInv, Typed, Grows
<1>3. ReadCounts'
  BY <1>1 DEF IInv, ReadCounts
<1>4. s.kind = "transporters" => s.kind \in Alternatives
  BY DEF Alternatives
<1>5. QueryOfTransporters'
  BY <1>1, <1>4 DEF IInv, QueryOfTransporters
<1>6. Column'
  <2>1. ~encrypted' => Excused'
    BY ExcusedStays DEF IInv, Column
  <2>2. s.kind = "transporters" => pc'[s] = "returned" /\ at'[s] = at[s]
    BY <1>1, <1>4
  <2> QED BY <1>1, <2>1, <2>2, ColumnStays DEF IInv, Column
<1>7. OneForm'
  <2> SUFFICES ASSUME NEW t \in active, t.kind = "transporters", t \notin overtaken
               PROVE  /\ pc'[t] \in {"idle", "send", "sent", "variables"} => sent[t] = {}
                      /\ pc'[t] \notin {"idle", "returned"} =>
                           (at'[t].q = 1 <=> encrypted) /\ sent[t] \subseteq {encrypted}
                      /\ pc'[t] = "rows" => withEncrypted[t] = encrypted
                      /\ sent[t] # BOOLEAN
    BY DEF OneForm, AtWork
  <2>1. CASE t = s
    BY <1>1, <1>4, <2>1 DEF IInv, OneForm
  <2>2. CASE t # s
    BY <1>1, <2>2 DEF IInv, OneForm, AtWork
  <2> QED BY <2>1, <2>2
<1> QED BY <1>2, <1>3, <1>5, <1>6, <1>7 DEF IInv

LEMMA RowsEndKeeps == ASSUME IInv, NEW s \in active, RowsEnd(s) PROVE IInv'
<1> DEFINE p == AfterRows(s.kind, at[s])
<1>1. /\ pc[s] = "rows" /\ read' = [read EXCEPT ![s] = @ + 1] /\ UNCHANGED faults
      /\ GoTo(s, p, Close(s))
      /\ UNCHANGED <<server, active, withEncrypted, sent, encrypted, ended, overtaken>>
  BY DEF RowsEnd
<1>2. p \in Targets /\ (s.kind \in Alternatives => p = Return("nil"))
  BY AfterRowsTargets DEF IInv, Typed
<1> HIDE DEF p
<1>3. s.kind \in Alternatives => p.to = "nil" /\ read[s] = 0
  BY <1>1, <1>2 DEF Return, IInv, ReadCounts
<1>4. /\ read' \in [active -> Nat] /\ \A t \in active \ {s} : read'[t] = read[t]
      /\ read[s] = 0 => read'[s] = 1
      /\ Grows
  BY <1>1, NoFault DEF IInv, Typed
<1> QED BY <1>1, <1>2, <1>3, <1>4, ResultEnds

\* Where a scraper goes from a row that cannot be scanned.
LEMMA ScanFailureTargets ==
  ASSUME NEW s, NEW p \in ScanFailure(s), at[s] \in Positions
  PROVE  /\ p \in Targets /\ p \in {AfterRows(s.kind, at[s]), Return("nil"), Return("error")}
         /\ s.kind \in Alternatives => p = Return("error") /\ p.to = "error"
<1>1. /\ p \in {AfterRows(s.kind, at[s]), Return("nil"), Return("error")}
      /\ s.kind \in Alternatives => p = Return("error")
  BY DEF ScanFailure, Alternatives
<1>2. AfterRows(s.kind, at[s]) \in Targets
  BY AfterRowsTargets
<1> QED BY <1>1, <1>2 DEF Targets, Return

LEMMA ScanFailsKeeps == ASSUME IInv, NEW s \in active, ScanFails(s) PROVE IInv'
<1>1. PICK p \in ScanFailure(s) : GoTo(s, p, Close(s))
  BY DEF ScanFails
<1>2. /\ pc[s] = "rows"
      /\ UNCHANGED <<server, active, withEncrypted, read, sent, encrypted, ended, overtaken>>
  BY DEF ScanFails
<1>3. Typed /\ at[s] \in Positions
  BY DEF IInv, Typed
<1>4. p \in Targets /\ (s.kind \in Alternatives => p.to = "error")
  BY <1>3, ScanFailureTargets
<1>5. Grows
  BY <1>3, NoFault, FaultGrows DEF ScanFails
<1>6. read' \in [active -> Nat]
  BY <1>2, <1>3 DEF Typed
<1> QED BY <1>1, <1>2, <1>4, <1>5, <1>6, ResultEnds

\* Each step keeps the invariant.  (every Scrape of module Fallbacks)
LEMMA StepKeeps == IInv /\ [Next]_vars => IInv'
<1> SUFFICES ASSUME IInv, [Next]_vars PROVE IInv'
  OBVIOUS
<1>1. ASSUME NEW s \in active, Scrape(s) PROVE IInv'
  BY <1>1, BeginKeeps, SendKeeps, AnswerKeeps, VariablesKeeps, ScanKeeps, ScanFailsKeeps,
     RowsEndKeeps DEF Scrape
<1>2. ASSUME NEW r, ContextDone(r) PROVE IInv'
  <2>1. /\ ended' = ended \cup {r}
        /\ UNCHANGED <<server, active, pc, at, withEncrypted, read, sent, result, encrypted,
                       faults, overtaken>>
    BY <1>2 DEF ContextDone
  <2>2. Typed' /\ ReadCounts' /\ QueryOfTransporters' /\ OneForm'
    BY <2>1 DEF IInv, Typed, ReadCounts, QueryOfTransporters, OneForm, AtWork
  <2>3. Column'
    <3>1. \A t \in active : HasColumn(t)' <=> HasColumn(t)
      BY <2>1 DEF HasColumn, Knows
    <3>2. Excused => Excused'
      BY <2>1, NoFault, ExcusedStays DEF IInv
    <3> QED BY <2>1, <3>1, <3>2 DEF IInv, Column
  <2> QED BY <2>2, <2>3 DEF IInv
<1>3. CASE UNCHANGED vars
  <2>1. UNCHANGED <<server, active, pc, at, withEncrypted, read, sent, result, encrypted, ended,
                    faults, overtaken>>
    BY <1>3 DEF vars
  <2>2. Typed' /\ ReadCounts' /\ QueryOfTransporters' /\ OneForm'
    BY <2>1 DEF IInv, Typed, ReadCounts, QueryOfTransporters, OneForm, AtWork
  <2>3. Column'
    <3>1. \A t \in active : HasColumn(t)' <=> HasColumn(t)
      BY <2>1 DEF HasColumn, Knows
    <3>2. Excused => Excused'
      BY <2>1, NoFault, ExcusedStays DEF IInv
    <3> QED BY <2>1, <3>1, <3>2 DEF IInv, Column
  <2> QED BY <2>2, <2>3 DEF IInv
<1> QED BY <1>1, <1>2, <1>3 DEF Next, AllReturned

\* The invariant holds in every reachable state.  (every Scrape of module Fallbacks)
THEOREM FallbacksStrengthened == Spec => []IInv
BY InitEstablishes, StepKeeps, PTL DEF Spec

\* A scraper that has alternatives and returns nil has read one result to its end.
\* (ScrapeSlaveStatus, ScrapeSlaveHosts, ScrapeNdbinfoTransporters)
THEOREM NilMeansReadHolds == Spec => []NilMeansRead
<1>1. IInv => NilMeansRead
  BY DEF IInv, ReadCounts, NilMeansRead, Alternatives
<1> QED BY FallbacksStrengthened, <1>1, PTL

\* Rows of transporters lack the column only after some scrape has given a reason, and have
\* it only from a server that has it.
\* (ndbinfoTransportersQueryDB, and the test of the flag for each row)
THEOREM ColumnSentHolds == Spec => []ColumnSent
<1>1. IInv => ColumnSent
  BY DEF IInv, Column, ColumnSent
<1> QED BY FallbacksStrengthened, <1>1, PTL

\* A scrape that the flag has not overtaken has a variable for each column.
LEMMA ColumnsFit ==
  ASSUME IInv, NEW s \in active, s.kind = "transporters", s \notin overtaken, pc[s] = "rows"
  PROVE  ~Mismatch(s)
<1>1. withEncrypted[s] = encrypted /\ (at[s].q = 1 <=> encrypted) /\ encrypted \in BOOLEAN
  BY DEF IInv, OneForm, AtWork, Typed
<1>2. CASE encrypted
  <2>1. withEncrypted[s] = TRUE /\ at[s].q = 1
    BY <1>1, <1>2
  <2> QED BY <2>1 DEF Mismatch
<1>3. CASE ~encrypted
  <2>1. withEncrypted[s] = FALSE /\ at[s].q # 1
    BY <1>1, <1>3
  <2> QED BY <2>1 DEF Mismatch
<1> QED BY <1>2, <1>3

\* Only scrapes at work when another one turned the flag off mix the two forms of the query.
\* (the three tests of ndbinfoTransportersScrapeEncrypted)
THEOREM MixedOnlyAcrossHolds == Spec => []MixedOnlyAcross
<1>1. IInv => MixedOnlyAcross
  <2> SUFFICES ASSUME IInv, NEW s \in active, s.kind = "transporters", s \notin overtaken
               PROVE  sent[s] # BOOLEAN /\ ~(pc[s] = "rows" /\ Mismatch(s))
    BY DEF MixedOnlyAcross
  <2>1. sent[s] # BOOLEAN
    BY DEF IInv, OneForm
  <2> QED BY <2>1, ColumnsFit
<1> QED BY FallbacksStrengthened, <1>1, PTL

-----------------------------------------------------------------------------
(* Where a scraper can be, and the connections that it holds there *)

LastQuery(kind) ==
  CASE kind = "slave_status"        -> 3
    [] kind = "replica_host"        -> 1
    [] kind = "query_response_time" -> 4
    [] OTHER                        -> 2

Reading(step) == IF step \in {"variables", "rows"} THEN 1 ELSE 0

\* What a scraper of this kind may hold and have read at a step: slave_status loses at
\* most one result for each form that it leaves, the others none; only
\* query_response_time goes on after a result.
Fits(kind, step, p, opened, results, returned) ==
  /\ p.q <= LastQuery(kind)
  /\ kind # "slave_status" => p.suffix = 0
  /\ opened <= Reading(step) + (IF kind = "slave_status" THEN p.q - 1 ELSE 0)
  /\ step # "returned" =>
       results = 0 \/ (kind = "query_response_time" /\ results + 2 <= p.q)
  /\ step = "idle" => results = 0
  /\ results <= 3
  /\ step \in {"variables", "rows"} => ~IsCheck(kind, p)
  /\ returned # None <=> step = "returned"

Bounded ==
  /\ server \in [Requests -> Servers]
  /\ ended \subseteq Requests
  /\ \A s \in active : faults[s] <= MaxFaults
  /\ open \in [active -> Nat]
  /\ rows \in [active -> 0..MaxRows]

Fitting ==
  \A s \in active : Fits(s.kind, pc[s], at[s], open[s], read[s], result[s])

WithinPool == \A s \in active : InUse(s) <= MaxOpenConns

PInv == IInv /\ Bounded /\ Fitting /\ WithinPool

\* What follows an answer, for the account of queries and of connections.
LEMMA AfterShape ==
  ASSUME NEW kind \in Kinds, NEW p \in Positions, NEW answer, NEW a,
         a = After(kind, p, answer),
         p.q <= LastQuery(kind), kind # "slave_status" => p.suffix = 0
  PROVE  /\ a.to = "query" =>
              /\ a.q \in p.q .. LastQuery(kind)
              /\ kind # "slave_status" => a.suffix = 0
              /\ answer = "ok" /\ ~IsCheck(kind, p) => kind = "slave_status" /\ a.q = p.q + 1
         /\ a.to = "rows" => answer = "ok" /\ ~IsCheck(kind, p)
         /\ a.to \in {"nil", "error"} => answer # "ok"
<1>0. p.q \in 1..4 /\ p.suffix \in 0..3
  BY DEF Positions
<1>1. CASE kind = "slave_status"
  BY <1>0, <1>1 DEF After, SlaveStatusNext, LastQuery, IsCheck, Rows, Query, Suffix, Return
<1>2. CASE kind = "slave_hosts"
  BY <1>0, <1>2 DEF After, SlaveHostsNext, LastQuery, IsCheck, Rows, Query, Return
<1>3. CASE kind = "replica_host"
  BY <1>0, <1>3 DEF After, ReplicaHostNext, LastQuery, IsCheck, Rows, Query, Return
<1>4. CASE kind = "transporters"
  BY <1>0, <1>4 DEF After, TransportersNext, LastQuery, IsCheck, Rows, Query, Return
<1>5. CASE kind = "userstats"
  BY <1>0, <1>5 DEF After, UserStatNext, LastQuery, IsCheck, Rows, Query, Return
<1>6. CASE kind = "query_response_time"
  BY <1>0, <1>6 DEF After, QueryResponseTimeNext, LastQuery, IsCheck, Rows, Query, Return
<1>7. CASE kind = "binlog_size"
  BY <1>0, <1>7 DEF After, BinlogSizeNext, LastQuery, IsCheck, Rows, Query, Return
<1> QED BY <1>1, <1>2, <1>3, <1>4, <1>5, <1>6, <1>7 DEF Kinds

\* What GoTo does to the results and the rows.
LEMMA GoToCounts ==
  ASSUME Bounded, NEW s \in active, NEW p, NEW opened \in Nat, GoTo(s, p, opened)
  PROVE  /\ open' \in [active -> Nat] /\ rows' \in [active -> 0..MaxRows]
         /\ open'[s] = opened /\ \A t \in active \ {s} : open'[t] = open[t]
<1>1. open' = [open EXCEPT ![s] = opened] /\ rows' = [rows EXCEPT ![s] = 0]
  BY DEF GoTo
<1>2. 0 \in 0..MaxRows
  BY FallbacksAssumption
<1> QED BY <1>1, <1>2 DEF Bounded

\* A mix is finite, and so are the scrapers of one request.
LEMMA ColleaguesFinite ==
  ASSUME Typed, NEW s \in active
  PROVE  IsFiniteSet(Colleagues(s)) /\ IsFiniteSet(active)
<1>1. IsFiniteSet(active)
  BY FallbacksAssumption DEF Typed
<1>2. Colleagues(s) \subseteq active
  BY DEF Colleagues
<1> QED BY <1>1, <1>2, FS_Subset

\* What one scraper holds.
LEMMA HoldsType ==
  ASSUME open \in [active -> Nat], NEW t \in active
  PROVE  /\ Holds[t] = open[t] + (IF pc[t] = "sent" THEN 1 ELSE 0)
         /\ Holds[t] \in Nat
BY DEF Holds

\* While each scraper holds no more than before, the pool is not exceeded.
LEMMA PoolKept ==
  ASSUME Typed, Bounded, WithinPool, active' = active, open' \in [active -> Nat],
         \A t \in active : Holds'[t] <= Holds[t]
  PROVE  WithinPool'
<1> SUFFICES ASSUME NEW s \in active
             PROVE  SumFunctionOnSet(Holds', Colleagues(s)) <= MaxOpenConns
  BY DEF WithinPool, InUse, Colleagues
<1>1. SumFunctionOnSet(Holds, Colleagues(s)) <= MaxOpenConns
  BY DEF WithinPool, InUse
<1>2. IsFiniteSet(Colleagues(s)) /\ Colleagues(s) \subseteq active
  BY ColleaguesFinite DEF Colleagues
<1>3. \A t \in active : Holds[t] \in Nat
  BY HoldsType DEF Bounded
<1>4. \A t \in active : Holds'[t] \in Nat
  BY DEF Holds
<1>5. SumFunctionOnSet(Holds', Colleagues(s)) <= SumFunctionOnSet(Holds, Colleagues(s))
  BY <1>2, <1>3, <1>4, SumMonotone
<1>6. /\ SumFunctionOnSet(Holds', Colleagues(s)) \in Int
      /\ SumFunctionOnSet(Holds, Colleagues(s)) \in Int
  BY <1>2, <1>3, <1>4, SumInt
<1> QED BY <1>1, <1>5, <1>6, FallbacksAssumption

\* A scraper that goes to where it may be, with no more connections than it had.
LEMMA GoKeeps ==
  ASSUME PInv, NEW s \in active, NEW p \in Targets, NEW opened \in Nat,
         GoTo(s, p, opened), UNCHANGED <<server, active, ended>>,
         \A t \in active : faults'[t] <= MaxFaults,
         \A t \in active \ {s} : read'[t] = read[t],
         opened <= Holds[s],
         p.to = "query" => Fits(s.kind, "send", p, opened, read'[s], result[s]),
         p.to = "rows" => Fits(s.kind, "variables", at[s], opened, read'[s], result[s]),
         p.to \in {"nil", "error"} =>
           Fits(s.kind, "returned", at[s], opened, read'[s], p.to)
  PROVE  Bounded' /\ Fitting' /\ WithinPool'
<1>1. Typed /\ Bounded /\ Fitting /\ WithinPool
  BY DEF PInv, IInv
<1>2. p.to \in {"query", "rows", "nil", "error"}
  BY DEF Targets, Positions, Rows, Return
<1>3. /\ open' \in [active -> Nat] /\ rows' \in [active -> 0..MaxRows]
      /\ open'[s] = opened /\ \A t \in active \ {s} : open'[t] = open[t]
  BY <1>1, GoToCounts
<1>4. /\ pc' \in [active -> Places]
      /\ \A t \in active \ {s} : pc'[t] = pc[t] /\ at'[t] = at[t] /\ result'[t] = result[t]
      /\ p.to = "query" => pc'[s] = "send" /\ at'[s] = p /\ result'[s] = result[s]
      /\ p.to = "rows" => pc'[s] = "variables" /\ at'[s] = at[s] /\ result'[s] = result[s]
      /\ p.to \in {"nil", "error"} =>
           pc'[s] = "returned" /\ at'[s] = at[s] /\ result'[s] = p.to
  BY <1>1, GoToEffect
<1>5. Bounded'
  BY <1>1, <1>3 DEF Bounded, Requests
<1>6. Fitting'
  <2> SUFFICES ASSUME NEW t \in active
               PROVE  Fits(t.kind, pc'[t], at'[t], open'[t], read'[t], result'[t])
    BY DEF Fitting
  <2>1. CASE t = s
    BY <1>2, <1>3, <1>4, <2>1
  <2>2. CASE t # s
    BY <1>1, <1>3, <1>4, <2>2 DEF Fitting
  <2> QED BY <2>1, <2>2
<1>7. WithinPool'
  <2>1. \A t \in active : Holds'[t] = open'[t] + (IF pc'[t] = "sent" THEN 1 ELSE 0)
    BY DEF Holds
  <2>2. pc'[s] # "sent"
    BY <1>2, <1>4
  <2>3. \A t \in active : Holds'[t] <= Holds[t]
    BY <1>1, <1>3, <1>4, <2>1, <2>2, HoldsType DEF Bounded
  <2> QED BY <1>1, <1>3, <2>3, PoolKept
<1> QED BY <1>5, <1>6, <1>7

\* The first query is one of its kind.  (the beginning of each Scrape)
LEMMA BeginFits ==
  ASSUME PInv, NEW s \in active, Begin(s) PROVE Bounded' /\ Fitting' /\ WithinPool'
<1> DEFINE p == First(s.kind)
<1>1. s.kind \in Kinds
  BY KindsOfActive DEF PInv, IInv
<1>2. /\ p \in Targets /\ p.to = "query" /\ p.suffix = 0
      /\ p.q \in 1 .. LastQuery(s.kind)
  BY <1>1 DEF First, Query, Targets, Positions, LastQuery, Kinds
<1>3. /\ pc[s] = "idle" /\ GoTo(s, p, 0)
      /\ UNCHANGED <<server, active, read, ended, faults>>
  BY DEF Begin
<1> HIDE DEF p
<1>4. 0 \in Nat /\ 0 <= Holds[s] /\ \A t \in active : faults'[t] <= MaxFaults
  BY <1>3, HoldsType DEF PInv, Bounded
<1>5. Fits(s.kind, "send", p, 0, read'[s], result[s])
  BY <1>2, <1>3, FallbacksAssumption DEF PInv, Fitting, Fits, Reading, IInv, Typed
<1> QED BY <1>2, <1>3, <1>4, <1>5, GoKeeps

\* Only Send takes a connection, and only when the pool has one.
LEMMA SendFits ==
  ASSUME PInv, NEW s \in active, Send(s) PROVE Bounded' /\ Fitting' /\ WithinPool'
<1>1. /\ pc[s] = "send" /\ pc' = [pc EXCEPT ![s] = "sent"] /\ InUse(s) < MaxOpenConns
      /\ UNCHANGED <<server, active, at, open, rows, read, result, ended, faults>>
  BY DEF Send
<1>2. Typed /\ Bounded /\ Fitting /\ WithinPool
  BY DEF PInv, IInv
<1>3. /\ pc'[s] = "sent" /\ \A t \in active \ {s} : pc'[t] = pc[t]
  BY <1>1, <1>2 DEF Typed
<1>4. Bounded'
  BY <1>1, <1>2 DEF Bounded, Requests
<1>5. Fitting'
  BY <1>1, <1>2, <1>3 DEF Fitting, Fits, Reading
<1>6. WithinPool'
  <2> SUFFICES ASSUME NEW t \in active
               PROVE  SumFunctionOnSet(Holds', Colleagues(t)) <= MaxOpenConns
    BY <1>1 DEF WithinPool, InUse, Colleagues
  <2>1. IsFiniteSet(Colleagues(t)) /\ Colleagues(t) \subseteq active
    BY <1>2, ColleaguesFinite DEF Colleagues
  <2>2. /\ \A u \in active : Holds[u] \in Nat /\ Holds'[u] \in Nat
        /\ \A u \in active \ {s} : Holds'[u] = Holds[u]
        /\ Holds'[s] = Holds[s] + 1
    BY <1>1, <1>2, <1>3 DEF Holds, Bounded
  <2>3. SumFunctionOnSet(Holds, Colleagues(t)) <= MaxOpenConns
    BY <1>2 DEF WithinPool, InUse
  <2>4. CASE s \in Colleagues(t)
    <3>1. Colleagues(t) = Colleagues(s)
      BY <2>4 DEF Colleagues
    <3>2. SumFunctionOnSet(Holds', Colleagues(s)) =
            SumFunctionOnSet(Holds, Colleagues(s)) - Holds[s] + Holds'[s]
      BY <2>1, <2>2, <2>4, <3>1, SumUpdate
    <3>3. SumFunctionOnSet(Holds, Colleagues(s)) \in Int
      BY <2>1, <2>2, <3>1, SumInt
    <3>4. SumFunctionOnSet(Holds, Colleagues(s)) < MaxOpenConns
      BY <1>1 DEF InUse
    <3> QED BY <2>2, <3>1, <3>2, <3>3, <3>4, FallbacksAssumption
  <2>5. CASE s \notin Colleagues(t)
    <3>1. SumFunctionOnSet(Holds', Colleagues(t)) = SumFunctionOnSet(Holds, Colleagues(t))
      BY <2>1, <2>2, <2>5, SumSame
    <3> QED BY <2>3, <3>1
  <2> QED BY <2>4, <2>5
<1> QED BY <1>4, <1>5, <1>6

\* An answer, for the account: only a result that is returned opens one.
LEMMA TakeFits ==
  ASSUME PInv, NEW s \in active, NEW answer, Take(s, answer),
         pc[s] = "sent" \/ (pc[s] = "send" /\ answer # "ok"),
         \A t \in active : faults'[t] <= MaxFaults
  PROVE  Bounded' /\ Fitting' /\ WithinPool'
<1> DEFINE p == After(s.kind, at[s], answer)
           opened == IF answer = "ok" /\ ~IsCheck(s.kind, at[s]) THEN open[s] + 1 ELSE open[s]
<1>1. at[s] \in Positions /\ s.kind \in Kinds /\ open[s] \in Nat
      /\ Fits(s.kind, pc[s], at[s], open[s], read[s], result[s])
  BY KindsOfActive DEF PInv, IInv, Typed, Bounded, Fitting
<1>2. p \in Targets
  BY <1>1, AfterTargets
<1>3. /\ p.to = "query" =>
           /\ p.q \in at[s].q .. LastQuery(s.kind)
           /\ s.kind # "slave_status" => p.suffix = 0
           /\ answer = "ok" /\ ~IsCheck(s.kind, at[s]) =>
                s.kind = "slave_status" /\ p.q = at[s].q + 1
      /\ p.to = "rows" => answer = "ok" /\ ~IsCheck(s.kind, at[s])
      /\ p.to \in {"nil", "error"} => answer # "ok"
  BY <1>1, AfterShape DEF Fits
<1>4. /\ GoTo(s, p, opened)
      /\ UNCHANGED <<server, active, read, ended>>
  BY DEF Take
<1> HIDE DEF p
<1>5. opened \in Nat /\ opened <= Holds[s]
  BY <1>1, HoldsType DEF PInv, Bounded
<1>6. opened = open[s] \/ (opened = open[s] + 1 /\ answer = "ok" /\ ~IsCheck(s.kind, at[s]))
  OBVIOUS
<1>7. answer # "ok" => opened = open[s]
  OBVIOUS
<1> HIDE DEF opened
<1>8. at[s].q \in 1..4 /\ read[s] \in Nat
  BY <1>1 DEF Positions, PInv, IInv, Typed
<1>9. p.to = "query" => Fits(s.kind, "send", p, opened, read[s], result[s])
  <2>1. SUFFICES ASSUME p.to = "query"
                 PROVE  Fits(s.kind, "send", p, opened, read[s], result[s])
    OBVIOUS
  <2>2. p.q \in Int /\ at[s].q <= p.q /\ p.q <= LastQuery(s.kind)
    BY <1>3, <1>8, <2>1 DEF LastQuery
  <2>3. ~(result[s] # None) /\ ("send" # "returned") /\ (s.kind # "slave_status" => p.suffix = 0)
    BY <1>1, <1>3, <2>1 DEF Fits
  <2>4. opened <= IF s.kind = "slave_status" THEN p.q - 1 ELSE 0
    <3>1. open[s] <= IF s.kind = "slave_status" THEN at[s].q - 1 ELSE 0
      <4>1. Reading(pc[s]) = 0
        BY DEF Reading
      <4>2. open[s] <= Reading(pc[s]) + (IF s.kind = "slave_status" THEN at[s].q - 1 ELSE 0)
        BY <1>1 DEF Fits
      <4> QED BY <1>1, <1>8, <4>1, <4>2
    <3>2. CASE opened = open[s]
      BY <1>1, <1>8, <2>2, <3>1, <3>2
    <3>3. CASE opened = open[s] + 1 /\ answer = "ok" /\ ~IsCheck(s.kind, at[s])
      <4>1. s.kind = "slave_status" /\ p.q = at[s].q + 1
        BY <1>3, <2>1, <3>3
      <4> QED BY <1>1, <1>8, <3>1, <3>3, <4>1
    <3> QED BY <1>6, <3>2, <3>3
  <2>5. read[s] <= 3 /\ (read[s] = 0 \/ (s.kind = "query_response_time" /\ read[s] + 2 <= p.q))
    BY <1>1, <1>8, <2>2 DEF Fits
  <2> QED BY <1>5, <2>2, <2>3, <2>4, <2>5 DEF Fits, Reading
<1>10. p.to = "rows" => Fits(s.kind, "variables", at[s], opened, read[s], result[s])
  BY <1>1, <1>3, <1>5, <1>6, <1>8 DEF Fits, Reading
<1>11. p.to \in {"nil", "error"} => Fits(s.kind, "returned", at[s], opened, read[s], p.to)
  BY <1>1, <1>3, <1>5, <1>7, <1>8, FallbacksAssumption DEF Fits, Reading
<1> QED BY <1>2, <1>4, <1>5, <1>9, <1>10, <1>11, GoKeeps

\* The bound of the failures.
LEMMA FaultBounded ==
  ASSUME PInv, NEW s \in active, Fault(s)
  PROVE  \A t \in active : faults'[t] <= MaxFaults
<1>1. /\ faults[s] < MaxFaults /\ faults'[s] = faults[s] + 1 /\ faults[s] \in Nat
      /\ \A t \in active \ {s} : faults'[t] = faults[t]
  BY FaultGrows DEF PInv, IInv, Typed
<1>2. \A t \in active : faults[t] <= MaxFaults
  BY DEF PInv, Bounded
<1> QED BY <1>1, <1>2, FallbacksAssumption

\* The four ends of a query.
LEMMA AnswerFits ==
  ASSUME PInv, NEW s \in active, Answers(s) \/ IsUnknown(s) \/ Fails(s) \/ NotSent(s)
  PROVE  Bounded' /\ Fitting' /\ WithinPool'
<1>0. \A t \in active : faults[t] <= MaxFaults
  BY DEF PInv, Bounded
<1>1. ASSUME Answers(s) PROVE Bounded' /\ Fitting' /\ WithinPool'
  BY <1>0, <1>1, TakeFits DEF Answers
<1>2. ASSUME IsUnknown(s) PROVE Bounded' /\ Fitting' /\ WithinPool'
  BY <1>0, <1>2, TakeFits DEF IsUnknown
<1>3. ASSUME Fails(s) PROVE Bounded' /\ Fitting' /\ WithinPool'
  <2>1. \A t \in active : faults'[t] <= MaxFaults
    BY <1>3, FaultBounded DEF Fails
  <2> QED BY <1>3, <2>1, TakeFits DEF Fails
<1>4. ASSUME NotSent(s) PROVE Bounded' /\ Fitting' /\ WithinPool'
  BY <1>0, <1>4, TakeFits DEF NotSent
<1> QED BY <1>1, <1>2, <1>3, <1>4

\* The steps between a result and its rows keep what is held.
LEMMA VariablesFits ==
  ASSUME PInv, NEW s \in active, Variables(s) PROVE Bounded' /\ Fitting' /\ WithinPool'
<1>1. /\ pc[s] = "variables" /\ pc' = [pc EXCEPT ![s] = "rows"]
      /\ UNCHANGED <<server, active, at, open, rows, read, result, ended, faults>>
  BY DEF Variables
<1>2. Typed /\ Bounded /\ Fitting /\ WithinPool
  BY DEF PInv, IInv
<1>3. pc'[s] = "rows" /\ \A t \in active \ {s} : pc'[t] = pc[t]
  BY <1>1, <1>2 DEF Typed
<1>4. Bounded'
  BY <1>1, <1>2 DEF Bounded, Requests
<1>5. Fitting'
  BY <1>1, <1>2, <1>3 DEF Fitting, Fits, Reading
<1>6. \A t \in active : Holds'[t] <= Holds[t]
  BY <1>1, <1>2, <1>3 DEF Holds, Bounded
<1> QED BY <1>1, <1>2, <1>4, <1>5, <1>6, PoolKept DEF Bounded

\* A row more, up to the bound.
LEMMA ScanFits ==
  ASSUME PInv, NEW s \in active, Scan(s) PROVE Bounded' /\ Fitting' /\ WithinPool'
<1>1. /\ rows[s] < MaxRows /\ rows' = [rows EXCEPT ![s] = @ + 1]
      /\ UNCHANGED <<server, active, pc, at, open, read, result, ended, faults>>
  BY DEF Scan
<1>2. Typed /\ Bounded /\ Fitting /\ WithinPool
  BY DEF PInv, IInv
<1>3. rows[s] + 1 \in 0..MaxRows
  BY <1>1, <1>2, FallbacksAssumption DEF Bounded
<1>4. Bounded'
  BY <1>1, <1>2, <1>3 DEF Bounded, Requests
<1>5. Fitting' /\ WithinPool'
  BY <1>1, <1>2 DEF Fitting, WithinPool, InUse, Holds, Colleagues
<1> QED BY <1>4, <1>5

\* The end of a result closes it: the scraper holds what it has lost, and no more.
LEMMA CloseFits ==
  ASSUME PInv, NEW s \in active, pc[s] = "rows", NEW p \in Targets, GoTo(s, p, Close(s)),
         UNCHANGED <<server, active, ended>>, \A t \in active : faults'[t] <= MaxFaults,
         \A t \in active \ {s} : read'[t] = read[t], read'[s] \in {read[s], read[s] + 1},
         p \in {AfterRows(s.kind, at[s]), Return("nil"), Return("error")}
  PROVE  Bounded' /\ Fitting' /\ WithinPool'
<1>1. at[s] \in Positions /\ s.kind \in Kinds /\ open[s] \in Nat /\ read[s] \in Nat
      /\ Fits(s.kind, pc[s], at[s], open[s], read[s], result[s])
  BY KindsOfActive DEF PInv, IInv, Typed, Bounded, Fitting
<1>2. Close(s) \in Nat /\ Close(s) <= open[s] /\ (open[s] > 0 => Close(s) = open[s] - 1)
  BY <1>1 DEF Close
<1>3. Close(s) <= Holds[s]
  BY <1>1, <1>2, HoldsType DEF PInv, Bounded
<1>4. at[s].q \in 1..4
  BY <1>1 DEF Positions
<1>5. p.to = "query" => s.kind = "query_response_time" /\ at[s].q < 4 /\ p = Query(at[s].q + 1)
  BY DEF AfterRows, Return
<1>6. s.kind = "query_response_time" => at[s].q >= 2
  BY <1>1, <1>4 DEF Fits, IsCheck
<1>7. open[s] = 0 \/ open[s] > 0
  BY <1>1
<1>8. p.to = "query" => Fits(s.kind, "send", p, Close(s), read'[s], result[s])
  <2>1. SUFFICES ASSUME p.to = "query"
                 PROVE  Fits(s.kind, "send", p, Close(s), read'[s], result[s])
    OBVIOUS
  <2>2. p.q = at[s].q + 1 /\ p.suffix = 0 /\ s.kind = "query_response_time" /\ at[s].q < 4
    BY <1>5, <2>1 DEF Query
  <2>3. Close(s) <= 0
    BY <1>1, <1>2, <1>7, <2>2 DEF Fits, Reading
  <2>4. p.q <= LastQuery(s.kind) /\ ~("send" \in {"variables", "rows"})
    BY <1>4, <2>2 DEF LastQuery
  <2>5. (read'[s] = 0 \/ read'[s] + 2 <= p.q) /\ read'[s] <= 3
    BY <1>1, <1>4, <1>6, <2>2 DEF Fits
  <2>6. ~(result[s] # None)
    BY <1>1 DEF Fits
  <2> QED BY <2>2, <2>3, <2>4, <2>5, <2>6 DEF Fits, Reading
<1>9. p.to # "rows"
  BY <1>4 DEF AfterRows, Return, Query
<1>10. p.to \in {"nil", "error"} => Fits(s.kind, "returned", at[s], Close(s), read'[s], p.to)
  <2>1. Close(s) <= IF s.kind = "slave_status" THEN at[s].q - 1 ELSE 0
    BY <1>1, <1>2, <1>4, <1>7 DEF Fits, Reading
  <2>2. read'[s] <= 3
    BY <1>1, <1>4 DEF Fits
  <2> QED BY <1>1, <1>2, <1>4, <2>1, <2>2, FallbacksAssumption DEF Fits, Reading
<1> QED BY <1>2, <1>3, <1>8, <1>9, <1>10, GoKeeps

\* A result ends with its last row.
LEMMA RowsEndFits ==
  ASSUME PInv, NEW s \in active, RowsEnd(s) PROVE Bounded' /\ Fitting' /\ WithinPool'
<1>1. AfterRows(s.kind, at[s]) \in Targets
  BY AfterRowsTargets DEF PInv, IInv, Typed
<1>2. /\ pc[s] = "rows" /\ GoTo(s, AfterRows(s.kind, at[s]), Close(s))
      /\ read' = [read EXCEPT ![s] = @ + 1]
      /\ UNCHANGED <<server, active, ended, faults>>
  BY DEF RowsEnd
<1>3. read'[s] = read[s] + 1 /\ \A t \in active \ {s} : read'[t] = read[t]
  BY <1>2 DEF PInv, IInv, Typed
<1>4. \A t \in active : faults'[t] <= MaxFaults
  BY <1>2 DEF PInv, Bounded
<1> QED BY <1>1, <1>2, <1>3, <1>4, CloseFits

\* A result ends with a row that cannot be scanned.
LEMMA ScanFailsFits ==
  ASSUME PInv, NEW s \in active, ScanFails(s) PROVE Bounded' /\ Fitting' /\ WithinPool'
<1>1. PICK p \in ScanFailure(s) : GoTo(s, p, Close(s))
  BY DEF ScanFails
<1>2. pc[s] = "rows" /\ UNCHANGED <<server, active, read, ended>>
  BY DEF ScanFails
<1>3. at[s] \in Positions
  BY DEF PInv, IInv, Typed
<1>4. p \in Targets /\ p \in {AfterRows(s.kind, at[s]), Return("nil"), Return("error")}
  BY <1>3, ScanFailureTargets
<1>5. \A t \in active : faults'[t] <= MaxFaults
  BY FaultBounded DEF ScanFails, PInv, Bounded
<1> QED BY <1>1, <1>2, <1>4, <1>5, CloseFits

\* The end of a context frees the connections of its request.
LEMMA ContextDoneFits ==
  ASSUME PInv, NEW r \in Requests, ContextDone(r)
  PROVE  Bounded' /\ Fitting' /\ WithinPool'
<1>1. /\ ended' = ended \cup {r}
      /\ open' = [s \in active |-> IF s.request = r THEN 0 ELSE open[s]]
      /\ UNCHANGED <<server, active, pc, at, rows, read, result, faults>>
  BY DEF ContextDone
<1>2. Typed /\ Bounded /\ Fitting /\ WithinPool
  BY DEF PInv, IInv
<1>3. Bounded'
  BY <1>1, <1>2 DEF Bounded, Requests
<1>4. \A s \in active : open[s] \in Nat /\ open'[s] \in Nat /\ open'[s] <= open[s]
  BY <1>1, <1>2 DEF Bounded
<1>5. Fitting'
  <2> SUFFICES ASSUME NEW s \in active
               PROVE  Fits(s.kind, pc[s], at[s], open'[s], read[s], result[s])
    BY <1>1 DEF Fitting
  <2>1. Fits(s.kind, pc[s], at[s], open[s], read[s], result[s]) /\ at[s].q \in 1..4
    BY <1>2 DEF Fitting, Typed, Positions
  <2> QED BY <1>4, <2>1 DEF Fits, Reading
<1>6. \A s \in active : Holds'[s] <= Holds[s]
  BY <1>1, <1>4 DEF Holds
<1> QED BY <1>1, <1>2, <1>3, <1>5, <1>6, PoolKept DEF Bounded

\* Nothing is held at the beginning.
LEMMA PoolInit == Init => Bounded /\ Fitting /\ WithinPool
<1> SUFFICES ASSUME Init PROVE Bounded /\ Fitting /\ WithinPool
  OBVIOUS
<1>1. Bounded
  BY FallbacksAssumption DEF Init, Bounded
<1>2. Typed
  BY InitEstablishes DEF IInv
<1>3. Fitting
  <2> SUFFICES ASSUME NEW s \in active
               PROVE  Fits(s.kind, "idle", Query(1), 0, 0, None)
    BY DEF Init, Fitting
  <2> QED BY KindsOfActive, <1>2 DEF Fits, Reading, LastQuery, Query, Kinds
<1>4. WithinPool
  <2> SUFFICES ASSUME NEW s \in active PROVE InUse(s) <= MaxOpenConns
    BY DEF WithinPool
  <2>1. \A t \in Colleagues(s) : Holds[t] = 0
    BY DEF Init, Holds, Colleagues
  <2>2. InUse(s) = 0
    BY <1>2, <2>1, ColleaguesFinite, SumZero DEF InUse
  <2> QED BY <2>2, FallbacksAssumption
<1> QED BY <1>1, <1>3, <1>4

\* Each step keeps the places and the pool.  (every Scrape of module Fallbacks)
LEMMA PoolStep == PInv /\ [Next]_vars => Bounded' /\ Fitting' /\ WithinPool'
<1> SUFFICES ASSUME PInv, [Next]_vars PROVE Bounded' /\ Fitting' /\ WithinPool'
  OBVIOUS
<1>1. ASSUME NEW s \in active, Scrape(s) PROVE Bounded' /\ Fitting' /\ WithinPool'
  BY <1>1, BeginFits, SendFits, AnswerFits, VariablesFits, ScanFits, ScanFailsFits,
     RowsEndFits DEF Scrape
<1>2. ASSUME NEW r \in Requests, ContextDone(r)
      PROVE  Bounded' /\ Fitting' /\ WithinPool'
  BY <1>2, ContextDoneFits
<1>3. CASE UNCHANGED vars
  BY <1>3 DEF vars, PInv, Bounded, Requests, Fitting, WithinPool, InUse, Holds, Colleagues
<1> QED BY <1>1, <1>2, <1>3 DEF Next, AllReturned

\* The invariant of the pool holds in every reachable state.
THEOREM PoolStrengthened == Spec => []PInv
<1>1. Init => PInv
  BY InitEstablishes, PoolInit DEF PInv
<1>2. PInv /\ [Next]_vars => PInv'
  BY StepKeeps, PoolStep DEF PInv
<1> QED BY <1>1, <1>2, PTL DEF Spec

\* A request never has more connections in use than its pool allows, a scraper never
\* more than three results open, and what it returns it returns once.
\* (SetMaxOpenConns of newInstance, and every Scrape of module Fallbacks)
THEOREM TypeOKHolds == Spec => []TypeOK
<1>1. PInv => TypeOK
  <2> SUFFICES ASSUME PInv PROVE TypeOK
    OBVIOUS
  <2>1. \A s \in active : open[s] \in 0..3 /\ read[s] \in 0..3 /\
                          (result[s] # None <=> pc[s] = "returned")
    <3> SUFFICES ASSUME NEW s \in active
                 PROVE  open[s] \in 0..3 /\ read[s] \in 0..3 /\
                        (result[s] # None <=> pc[s] = "returned")
      OBVIOUS
    <3>1. /\ Fits(s.kind, pc[s], at[s], open[s], read[s], result[s])
          /\ at[s].q \in 1..4 /\ open[s] \in Nat /\ read[s] \in Nat
      BY DEF PInv, IInv, Typed, Bounded, Fitting, Positions
    <3>2. s.kind = "slave_status" => at[s].q <= 3
      BY <3>1 DEF Fits, LastQuery
    <3> QED BY <3>1, <3>2 DEF Fits, Reading
  <2>2. faults \in [active -> 0..MaxFaults]
    BY FallbacksAssumption DEF PInv, IInv, Typed, Bounded
  <2> QED BY <2>1, <2>2 DEF PInv, IInv, Typed, Bounded, WithinPool, TypeOK, Positions, Places
<1> QED BY PoolStrengthened, <1>1, PTL

-----------------------------------------------------------------------------
(* Lost results: each answers for a failure *)

\* Results that are lost at a step.
Excess(opened, step) == IF opened > Reading(step) THEN opened - Reading(step) ELSE 0

\* The plain form at p has failed on a server that knows it: the next form may
\* lose a result.
Reserve(kind, step, p, over, known) ==
  IF kind = "slave_status" /\ step \in {"send", "sent"} /\ p.suffix > 0 /\ ~over /\ known
  THEN 1 ELSE 0

PlainKnown(s, p) == Knows(s, slaveStatusQueries[p.q], "")

Charge(s) ==
  Excess(open[s], pc[s]) +
    Reserve(s.kind, pc[s], at[s], s.request \in ended, PlainKnown(s, at[s]))

\* Each result that is lost, or may be lost by the next answer, has a failure of its own.
Accounted == \A s \in active : Charge(s) <= faults[s]

\* What a scraper has lost, or may lose, is a number.
LEMMA ChargeType ==
  ASSUME open \in [active -> Nat], NEW s \in active
  PROVE  Charge(s) \in Nat
<1>1. Excess(open[s], pc[s]) \in Nat
  BY DEF Excess, Reading
<1>2. Reserve(s.kind, pc[s], at[s], s.request \in ended, PlainKnown(s, at[s])) \in Nat
  BY DEF Reserve
<1> QED BY <1>1, <1>2 DEF Charge

\* A step of s that charges it with at most d is covered by d failures of its own.
LEMMA OneCharged ==
  ASSUME PInv, Accounted, Fitting', UNCHANGED <<server, active, ended>>,
         open' \in [active -> Nat], Grows,
         NEW s \in active, NEW d \in Nat, faults'[s] >= faults[s] + d,
         \A t \in active \ {s} : pc'[t] = pc[t] /\ at'[t] = at[t] /\ open'[t] = open[t],
         s.kind = "slave_status" =>
           Excess(open'[s], pc'[s]) +
             Reserve(s.kind, pc'[s], at'[s], s.request \in ended, PlainKnown(s, at'[s]))
           <= Charge(s) + d
  PROVE  Accounted'
<1>1. Typed /\ Bounded
  BY DEF PInv, IInv
<1>2. \A t \in active :
        Charge(t)' = Excess(open'[t], pc'[t]) +
                     Reserve(t.kind, pc'[t], at'[t], t.request \in ended, PlainKnown(t, at'[t]))
  BY DEF Charge, PlainKnown, Knows
<1>3. ASSUME NEW t \in active
      PROVE  Charge(t) \in Nat /\ faults[t] \in Nat /\ faults'[t] \in Nat
             /\ Charge(t) <= faults[t] /\ faults[t] <= faults'[t]
  BY <1>1, ChargeType DEF Bounded, Accounted, Typed, Grows
<1> SUFFICES ASSUME NEW t \in active
             PROVE  Excess(open'[t], pc'[t]) +
                      Reserve(t.kind, pc'[t], at'[t], t.request \in ended, PlainKnown(t, at'[t]))
                    <= faults'[t]
  BY <1>2 DEF Accounted
<1>4. CASE t # s
  <2>1. Excess(open'[t], pc'[t]) +
          Reserve(t.kind, pc'[t], at'[t], t.request \in ended, PlainKnown(t, at'[t])) = Charge(t)
    BY <1>4 DEF Charge
  <2> QED BY <1>3, <2>1
<1>5. CASE t = s /\ s.kind = "slave_status"
  <2>1. /\ Excess(open'[s], pc'[s]) \in Nat
        /\ Reserve(s.kind, pc'[s], at'[s], s.request \in ended, PlainKnown(s, at'[s])) \in Nat
    BY DEF Excess, Reading, Reserve
  <2> QED BY <1>3, <1>5, <2>1
<1>6. CASE t = s /\ s.kind # "slave_status"
  <2>1. Excess(open'[s], pc'[s]) = 0
    BY <1>6 DEF Fitting, Fits, Excess, Reading
  <2>2. Reserve(s.kind, pc'[s], at'[s], s.request \in ended, PlainKnown(s, at'[s])) = 0
    BY <1>6 DEF Reserve
  <2> QED BY <1>3, <1>6, <2>1, <2>2
<1> QED BY <1>4, <1>5, <1>6

\* The loops of slave_status: an answer leaves the inner loop, its failure stays in it.
LEMMA SlaveStatusMoves ==
  ASSUME NEW p \in Positions, p.q <= 3, NEW answer, NEW a, a = SlaveStatusNext(p, answer)
  PROVE  /\ a.to = "query" /\ answer = "ok" => p.suffix > 0 /\ a.suffix = 0
         /\ a.to = "query" /\ answer # "ok" =>
              a.suffix = 0 \/ (a.q = p.q /\ a.suffix = p.suffix + 1)
<1>1. p.q \in 1..4 /\ p.suffix \in 0..3
  BY DEF Positions
<1> QED BY <1>1 DEF SlaveStatusNext, Query, Suffix, Rows, Return

\* A form with a suffix that is known has its plain form known.
LEMMA SuffixKnown ==
  ASSUME SuffixesAreExtra, Bounded, NEW s \in active, NEW p \in Positions, p.q <= 3,
         p.suffix > 0, Text("slave_status", p) \in server[s.request]
  PROVE  PlainKnown(s, p)
<1>1. p.q \in 1..3 /\ p.suffix \in 1..3
  BY DEF Positions
<1>2. Text("slave_status", p) = <<slaveStatusQueries[p.q], slaveStatusQuerySuffixes[p.suffix]>>
  <2>1. Statement("slave_status", p.q) = slaveStatusQueries[p.q]
    BY DEF Statement
  <2>2. p.suffix # 0
    BY <1>1
  <2> QED BY <2>1, <2>2 DEF Text
<1>3. <<slaveStatusQueries[p.q], slaveStatusQuerySuffixes[p.suffix]>> \in server[s.request]
  BY <1>2
<1>4. server[s.request] \in Servers
  BY DEF Bounded, Requests
<1>5. <<slaveStatusQueries[p.q], "">> \in server[s.request]
  <2> HIDE DEF slaveStatusQueries, slaveStatusQuerySuffixes
  <2> QED BY <1>1, <1>3, <1>4 DEF SuffixesAreExtra
<1> QED BY <1>5 DEF PlainKnown, Knows

\* The plain form is asked for at suffix 0.
LEMMA PlainUnknown ==
  ASSUME NEW s, NEW p \in Positions, p.suffix = 0,
         Text("slave_status", p) \notin server[s.request]
  PROVE  ~PlainKnown(s, p)
BY DEF Text, Statement, PlainKnown, Knows

\* An answer charges nothing; a failure charges the next form.
LEMMA TakeCharges ==
  ASSUME SuffixesAreExtra, PInv, Accounted, Fitting', NEW s \in active, NEW answer,
         Take(s, answer), pc[s] \in {"send", "sent"},
         Grows, NEW d \in {0, 1}, faults'[s] >= faults[s] + d,
         s.kind = "slave_status" /\ answer = "ok" =>
           pc[s] = "sent" /\ s.request \notin ended /\ Known(s),
         s.kind = "slave_status" /\ answer # "ok" =>
           d = 1 \/ s.request \in ended \/ ~Known(s)
  PROVE  Accounted'
<1> DEFINE p == After(s.kind, at[s], answer)
           opened == IF answer = "ok" /\ ~IsCheck(s.kind, at[s]) THEN open[s] + 1 ELSE open[s]
           over == s.request \in ended
<1>1. Typed /\ Bounded /\ at[s] \in Positions /\ s.kind \in Kinds /\ open[s] \in Nat
      /\ Fits(s.kind, pc[s], at[s], open[s], read[s], result[s])
  BY KindsOfActive DEF PInv, IInv, Typed, Bounded, Fitting
<1>2. p \in Targets
  BY <1>1, AfterTargets
<1>3. /\ GoTo(s, p, opened)
      /\ UNCHANGED <<server, active, ended>>
  BY DEF Take
<1>4. s.kind = "slave_status" =>
        /\ p = SlaveStatusNext(at[s], answer)
        /\ at[s].q <= 3
        /\ p.to \in {"nil", "error"} => answer # "ok"
        /\ p.to = "rows" => answer = "ok"
  BY <1>1, AfterShape DEF After, Fits, LastQuery
<1>5. s.kind = "slave_status" =>
        /\ answer = "ok" => opened = open[s] + 1
        /\ answer # "ok" => opened = open[s]
  BY DEF IsCheck
<1>6. opened \in Nat
  BY <1>1
<1> HIDE DEF p, opened
<1>7. p.to \in {"query", "rows", "nil", "error"}
  BY <1>2 DEF Targets, Positions, Rows, Return
<1>8. /\ open' \in [active -> Nat]
      /\ open'[s] = opened /\ \A t \in active \ {s} : open'[t] = open[t]
  BY <1>1, <1>3, <1>6, GoToCounts
<1>9. /\ \A t \in active \ {s} : pc'[t] = pc[t] /\ at'[t] = at[t]
      /\ p.to = "query" => pc'[s] = "send" /\ at'[s] = p
      /\ p.to = "rows" => pc'[s] = "variables" /\ at'[s] = at[s]
      /\ p.to \in {"nil", "error"} => pc'[s] = "returned" /\ at'[s] = at[s]
  BY <1>1, <1>2, <1>3, GoToEffect
<1>10. ASSUME s.kind = "slave_status"
       PROVE  Excess(open'[s], pc'[s]) +
                Reserve(s.kind, pc'[s], at'[s], over, PlainKnown(s, at'[s]))
              <= Charge(s) + d
  <2> DEFINE old == Reserve(s.kind, pc[s], at[s], over, PlainKnown(s, at[s]))
             new == Reserve(s.kind, pc'[s], at'[s], over, PlainKnown(s, at'[s]))
  <2>0. SUFFICES Excess(open'[s], pc'[s]) + new <= Charge(s) + d
    OBVIOUS
  <2>1. Charge(s) = open[s] + old
    BY <1>1 DEF Charge, Excess, Reading
  <2>2. old \in {0, 1} /\ new \in {0, 1}
    BY DEF Reserve
  <2>3. CASE answer = "ok" /\ p.to = "query"
    <3>1. at[s].suffix > 0 /\ p.suffix = 0
      BY <1>1, <1>4, <1>10, <2>3, SlaveStatusMoves
    <3>2. PlainKnown(s, at[s])
      BY <1>1, <1>4, <1>10, <2>3, <3>1, SuffixKnown DEF Known
    <3>3. old = 1
      BY <1>10, <2>3, <3>1, <3>2 DEF Reserve
    <3>4. new = 0
      BY <1>9, <2>3, <3>1 DEF Reserve
    <3>5. Excess(open'[s], pc'[s]) = open[s] + 1
      BY <1>1, <1>5, <1>8, <1>9, <1>10, <2>3 DEF Excess, Reading
    <3> HIDE DEF old, new
    <3> QED BY <1>1, <2>1, <3>3, <3>4, <3>5
  <2>4. CASE p.to = "rows"
    <3>1. Excess(open'[s], pc'[s]) = open[s]
      BY <1>1, <1>4, <1>5, <1>8, <1>9, <1>10, <2>4 DEF Excess, Reading
    <3>2. new = 0
      BY <1>9, <2>4 DEF Reserve
    <3> HIDE DEF old, new
    <3> QED BY <1>1, <2>1, <2>2, <3>1, <3>2
  <2>5. CASE p.to \in {"nil", "error"}
    <3>1. Excess(open'[s], pc'[s]) = open[s]
      BY <1>1, <1>4, <1>5, <1>8, <1>9, <1>10, <2>5 DEF Excess, Reading
    <3>2. new = 0
      BY <1>9, <2>5 DEF Reserve
    <3> HIDE DEF old, new
    <3> QED BY <1>1, <2>1, <2>2, <3>1, <3>2
  <2>6. CASE answer # "ok" /\ p.to = "query"
    <3>1. Excess(open'[s], pc'[s]) = open[s]
      BY <1>1, <1>5, <1>8, <1>9, <1>10, <2>6 DEF Excess, Reading
    <3>2. p.suffix = 0 \/ (p.q = at[s].q /\ p.suffix = at[s].suffix + 1)
      BY <1>1, <1>4, <1>10, <2>6, SlaveStatusMoves
    <3>3. new <= old + d
      <4>1. CASE p.suffix = 0
        <5>1. new = 0
          BY <1>9, <2>6, <4>1 DEF Reserve
        <5> HIDE DEF old, new
        <5> QED BY <2>2, <5>1
      <4>2. CASE p.q = at[s].q /\ at[s].suffix > 0
        <5>1. PlainKnown(s, at'[s]) = PlainKnown(s, at[s])
          BY <1>9, <2>6, <4>2 DEF PlainKnown
        <5>2. new <= old
          BY <1>9, <2>6, <4>2, <5>1 DEF Reserve
        <5> HIDE DEF old, new
        <5> QED BY <2>2, <5>2
      <4>3. CASE p.q = at[s].q /\ at[s].suffix = 0
        <5>1. CASE d = 1
          <6> HIDE DEF old, new
          <6> QED BY <2>2, <5>1
        <5>2. CASE over
          <6>1. new = 0
            BY <5>2 DEF Reserve
          <6> HIDE DEF old, new
          <6> QED BY <2>2, <6>1
        <5>3. CASE ~Known(s)
          <6>1. ~PlainKnown(s, at[s])
            BY <1>1, <1>10, <4>3, <5>3, PlainUnknown DEF Known
          <6>2. ~PlainKnown(s, at'[s])
            BY <1>9, <2>6, <4>3, <6>1 DEF PlainKnown
          <6>3. new = 0
            BY <6>2 DEF Reserve
          <6> HIDE DEF old, new
          <6> QED BY <2>2, <6>3
        <5> QED BY <1>10, <2>6, <5>1, <5>2, <5>3
      <4>4. at[s].suffix = 0 \/ at[s].suffix > 0
        BY <1>1 DEF Positions
      <4> QED BY <3>2, <4>1, <4>2, <4>3, <4>4
    <3> HIDE DEF old, new
    <3> QED BY <1>1, <2>1, <2>2, <3>1, <3>3
  <2> QED BY <1>7, <2>3, <2>4, <2>5, <2>6
<1>11. d \in Nat
  OBVIOUS
<1> QED BY <1>3, <1>8, <1>9, <1>10, <1>11, OneCharged

\* The first query charges nothing.
LEMMA BeginCharges ==
  ASSUME PInv, Accounted, Fitting', NEW s \in active, Begin(s) PROVE Accounted'
<1> DEFINE p == First(s.kind)
<1>1. Typed /\ Bounded
  BY DEF PInv, IInv
<1>2. p \in Targets /\ p.to = "query" /\ p.suffix = 0
  BY DEF First, Query, Targets, Positions
<1>3. pc[s] = "idle" /\ GoTo(s, p, 0) /\ UNCHANGED <<server, active, ended, faults>>
  BY DEF Begin
<1> HIDE DEF p
<1>4. /\ open' \in [active -> Nat]
      /\ open'[s] = 0 /\ \A t \in active \ {s} : open'[t] = open[t]
  BY <1>1, <1>3, GoToCounts
<1>5. /\ \A t \in active \ {s} : pc'[t] = pc[t] /\ at'[t] = at[t]
      /\ pc'[s] = "send" /\ at'[s] = p
  BY <1>1, <1>2, <1>3, GoToEffect
<1>6. Excess(open'[s], pc'[s]) = 0
  BY <1>4, <1>5 DEF Excess, Reading
<1>7. Reserve(s.kind, pc'[s], at'[s], s.request \in ended, PlainKnown(s, at'[s])) = 0
  BY <1>2, <1>5 DEF Reserve
<1>8. Charge(s) \in Nat /\ faults[s] \in Nat /\ faults'[s] >= faults[s] + 0 /\ Grows
  BY <1>1, <1>3, ChargeType, NoFault DEF Bounded, Typed
<1> QED BY <1>3, <1>4, <1>5, <1>6, <1>7, <1>8, OneCharged

\* Between the steps of a query, and between a result and its rows, nothing is charged.
LEMMA WalkCharges ==
  ASSUME PInv, Accounted, Fitting', NEW s \in active, Send(s) \/ Variables(s)
  PROVE  Accounted'
<1>1. Typed /\ Bounded
  BY DEF PInv, IInv
<1>2. /\ UNCHANGED <<server, active, at, open, ended, faults>>
      /\ \/ pc[s] = "send" /\ pc' = [pc EXCEPT ![s] = "sent"]
         \/ pc[s] = "variables" /\ pc' = [pc EXCEPT ![s] = "rows"]
  BY DEF Send, Variables
<1>3. /\ \A t \in active \ {s} : pc'[t] = pc[t]
      /\ \/ pc[s] = "send" /\ pc'[s] = "sent"
         \/ pc[s] = "variables" /\ pc'[s] = "rows"
  BY <1>1, <1>2 DEF Typed
<1>4. Excess(open[s], pc'[s]) = Excess(open[s], pc[s])
  BY <1>3 DEF Excess, Reading
<1>5. Reserve(s.kind, pc'[s], at[s], s.request \in ended, PlainKnown(s, at[s])) =
        Reserve(s.kind, pc[s], at[s], s.request \in ended, PlainKnown(s, at[s]))
  BY <1>3 DEF Reserve
<1>6. Excess(open[s], pc'[s]) +
        Reserve(s.kind, pc'[s], at[s], s.request \in ended, PlainKnown(s, at[s])) = Charge(s)
  BY <1>4, <1>5 DEF Charge
<1>7. /\ Charge(s) \in Nat /\ faults[s] \in Nat /\ faults'[s] >= faults[s] + 0
      /\ Grows /\ open \in [active -> Nat]
  BY <1>1, <1>2, ChargeType, NoFault DEF Bounded, Typed
<1> QED BY <1>2, <1>3, <1>6, <1>7, OneCharged

\* The Close of a result leaves the lost ones as they are.
LEMMA CloseCharges ==
  ASSUME PInv, Accounted, Fitting', NEW s \in active, pc[s] = "rows",
         NEW p \in Targets, GoTo(s, p, Close(s)),
         s.kind = "slave_status" => p.to \in {"nil", "error"},
         UNCHANGED <<server, active, ended>>, Grows
  PROVE  Accounted'
<1>1. Typed /\ Bounded /\ open[s] \in Nat
  BY DEF PInv, IInv, Bounded
<1>2. Close(s) \in Nat
  BY <1>1 DEF Close
<1>3. /\ open' \in [active -> Nat]
      /\ open'[s] = Close(s) /\ \A t \in active \ {s} : open'[t] = open[t]
  BY <1>1, <1>2, GoToCounts
<1>4. /\ \A t \in active \ {s} : pc'[t] = pc[t] /\ at'[t] = at[t]
      /\ p.to \in {"nil", "error"} => pc'[s] = "returned"
  BY <1>1, GoToEffect
<1>5. ASSUME s.kind = "slave_status"
      PROVE  Excess(open'[s], pc'[s]) +
               Reserve(s.kind, pc'[s], at'[s], s.request \in ended, PlainKnown(s, at'[s]))
             <= Charge(s) + 0
  <2>1. Excess(open'[s], pc'[s]) = Excess(open[s], pc[s])
    BY <1>1, <1>3, <1>4, <1>5 DEF Excess, Reading, Close
  <2>2. Reserve(s.kind, pc'[s], at'[s], s.request \in ended, PlainKnown(s, at'[s])) = 0
    BY <1>4, <1>5 DEF Reserve
  <2>3. Reserve(s.kind, pc[s], at[s], s.request \in ended, PlainKnown(s, at[s])) = 0
    BY DEF Reserve
  <2>4. Charge(s) \in Nat
    BY <1>1, ChargeType DEF Bounded
  <2> QED BY <2>1, <2>2, <2>3, <2>4 DEF Charge
<1>6. faults[s] \in Nat /\ faults'[s] \in Nat /\ faults'[s] >= faults[s]
  BY <1>1 DEF Typed, Grows
<1>7. faults'[s] >= faults[s] + 0 /\ 0 \in Nat
  BY <1>6
<1> QED BY <1>3, <1>4, <1>5, <1>7, OneCharged

\* A context that ends frees results and charges nothing.
LEMMA ContextDoneCharges ==
  ASSUME PInv, Accounted, NEW r, ContextDone(r) PROVE Accounted'
<1>1. /\ ended' = ended \cup {r}
      /\ open' = [s \in active |-> IF s.request = r THEN 0 ELSE open[s]]
      /\ UNCHANGED <<server, active, pc, at, faults>>
  BY DEF ContextDone
<1>2. Typed /\ Bounded
  BY DEF PInv, IInv
<1> SUFFICES ASSUME NEW s \in active PROVE Charge(s)' <= faults[s]
  BY <1>1 DEF Accounted
<1>3. Charge(s)' = Excess(open'[s], pc[s]) +
                   Reserve(s.kind, pc[s], at[s], s.request \in ended', PlainKnown(s, at[s]))
  BY <1>1 DEF Charge, PlainKnown, Knows
<1>4. open[s] \in Nat /\ open'[s] \in Nat /\ open'[s] <= open[s]
  BY <1>1, <1>2 DEF Bounded
<1>5. /\ Excess(open'[s], pc[s]) <= Excess(open[s], pc[s])
      /\ Excess(open'[s], pc[s]) \in Nat /\ Excess(open[s], pc[s]) \in Nat
  BY <1>4 DEF Excess, Reading
<1>6. s.request \in ended => s.request \in ended'
  BY <1>1
<1>7. /\ Reserve(s.kind, pc[s], at[s], s.request \in ended', PlainKnown(s, at[s])) <=
           Reserve(s.kind, pc[s], at[s], s.request \in ended, PlainKnown(s, at[s]))
      /\ Reserve(s.kind, pc[s], at[s], s.request \in ended', PlainKnown(s, at[s])) \in Nat
      /\ Reserve(s.kind, pc[s], at[s], s.request \in ended, PlainKnown(s, at[s])) \in Nat
  BY <1>6 DEF Reserve
<1>8. Charge(s)' \in Nat /\ Charge(s) \in Nat /\ Charge(s)' <= Charge(s)
  BY <1>3, <1>5, <1>7 DEF Charge
<1>9. Charge(s) <= faults[s] /\ faults[s] \in Nat
  BY <1>2 DEF Accounted, Typed
<1> QED BY <1>8, <1>9

\* A step that changes nothing of the account.
LEMMA AccountSame ==
  ASSUME Accounted, UNCHANGED <<server, active, pc, at, open, ended, faults>>
  PROVE  Accounted'
<1>1. \A s \in active : Charge(s)' = Charge(s)
  BY DEF Charge, PlainKnown, Knows
<1> QED BY <1>1 DEF Accounted

\* Each step of a scraper keeps the account.
LEMMA ScrapeCharges ==
  ASSUME SuffixesAreExtra, PInv, Accounted, Fitting', Typed', NEW s \in active, Scrape(s)
  PROVE  Accounted'
<1>0. faults[s] \in Nat /\ Typed /\ at[s] \in Positions
  BY DEF PInv, IInv, Typed
<1>1. CASE Begin(s)
  BY <1>1, BeginCharges
<1>2. CASE Send(s) \/ Variables(s)
  BY <1>2, WalkCharges
<1>3. CASE Answers(s)
  <2> DEFINE answer == IF IsOff(s) THEN "off" ELSE "ok"
  <2>1. /\ Take(s, answer) /\ pc[s] = "sent" /\ s.request \notin ended /\ Known(s)
        /\ faults' = faults
    BY <1>3 DEF Answers
  <2>2. s.kind = "slave_status" => answer = "ok"
    BY DEF IsOff, IsCheck
  <2> HIDE DEF answer
  <2>3. Grows /\ faults'[s] >= faults[s] + 0
    BY <1>0, <2>1, NoFault
  <2> QED BY <1>0, <2>1, <2>2, <2>3, TakeCharges
<1>4. CASE IsUnknown(s)
  <2>1. Take(s, "unknown") /\ pc[s] = "sent" /\ ~Known(s) /\ faults' = faults
    BY <1>4 DEF IsUnknown
  <2>2. Grows /\ faults'[s] >= faults[s] + 0
    BY <1>0, <2>1, NoFault
  <2> QED BY <1>0, <2>1, <2>2, TakeCharges
<1>5. CASE Fails(s)
  <2>1. Take(s, "error") /\ pc[s] = "sent" /\ Fault(s)
    BY <1>5 DEF Fails
  <2>2. Grows /\ faults'[s] >= faults[s] + 1
    BY <1>0, <2>1, FaultGrows
  <2> QED BY <1>0, <2>1, <2>2, TakeCharges
<1>6. CASE NotSent(s)
  <2>1. /\ Take(s, "error") /\ pc[s] \in {"send", "sent"} /\ s.request \in ended
        /\ faults' = faults
    BY <1>6 DEF NotSent
  <2>2. Grows /\ faults'[s] >= faults[s] + 0
    BY <1>0, <2>1, NoFault
  <2> QED BY <1>0, <2>1, <2>2, TakeCharges
<1>7. CASE Scan(s)
  BY <1>7, AccountSame DEF Scan
<1>8. CASE ScanFails(s)
  <2>1. PICK p \in ScanFailure(s) : GoTo(s, p, Close(s))
    BY <1>8 DEF ScanFails
  <2>2. /\ pc[s] = "rows" /\ UNCHANGED <<server, active, ended>>
        /\ UNCHANGED faults \/ Fault(s)
    BY <1>8 DEF ScanFails
  <2>3. p \in Targets
    BY <1>0, ScanFailureTargets
  <2>4. s.kind = "slave_status" => p.to \in {"nil", "error"}
    BY DEF ScanFailure, Return
  <2>5. Grows
    BY <1>0, <2>2, NoFault, FaultGrows
  <2> QED BY <2>1, <2>2, <2>3, <2>4, <2>5, CloseCharges
<1>9. CASE RowsEnd(s)
  <2>1. /\ pc[s] = "rows" /\ GoTo(s, AfterRows(s.kind, at[s]), Close(s)) /\ faults' = faults
        /\ UNCHANGED <<server, active, ended>>
    BY <1>9 DEF RowsEnd
  <2>2. AfterRows(s.kind, at[s]) \in Targets
    BY <1>0, AfterRowsTargets
  <2>3. s.kind = "slave_status" => AfterRows(s.kind, at[s]).to \in {"nil", "error"}
    BY DEF AfterRows, Return
  <2>4. Grows
    BY <1>0, <2>1, NoFault
  <2> QED BY <2>1, <2>2, <2>3, <2>4, CloseCharges
<1> QED BY <1>1, <1>2, <1>3, <1>4, <1>5, <1>6, <1>7, <1>8, <1>9 DEF Scrape

\* Nothing is lost at the beginning.
LEMMA AccountInit == Init => Accounted
<1> SUFFICES ASSUME Init, NEW s \in active PROVE Charge(s) <= faults[s]
  BY DEF Accounted
<1>1. pc[s] = "idle" /\ open[s] = 0 /\ faults[s] = 0
  BY DEF Init
<1>2. Excess(open[s], pc[s]) = 0
  BY <1>1 DEF Excess, Reading
<1>3. Reserve(s.kind, pc[s], at[s], s.request \in ended, PlainKnown(s, at[s])) = 0
  BY <1>1 DEF Reserve
<1> QED BY <1>1, <1>2, <1>3 DEF Charge

\* Each step keeps the account.
LEMMA AccountStep ==
  ASSUME SuffixesAreExtra
  PROVE  PInv /\ Accounted /\ [Next]_vars => Accounted'
<1> SUFFICES ASSUME PInv, Accounted, [Next]_vars PROVE Accounted'
  OBVIOUS
<1>1. PInv'
  BY StepKeeps, PoolStep DEF PInv
<1>2. Fitting' /\ Typed'
  BY <1>1 DEF PInv, IInv
<1>3. ASSUME NEW s \in active, Scrape(s) PROVE Accounted'
  BY <1>2, <1>3, ScrapeCharges
<1>4. ASSUME NEW r, ContextDone(r) PROVE Accounted'
  BY <1>4, ContextDoneCharges
<1>5. CASE UNCHANGED vars
  BY <1>5, AccountSame DEF vars
<1> QED BY <1>3, <1>4, <1>5 DEF Next, AllReturned

\* Where a suffix is only ever extra, each result that slave_status has lost, and each
\* connection it holds with it, answers for a failure that the same scrape has met, of a
\* statement that its server knows.  (the loops of ScrapeSlaveStatus.Scrape)
THEOREM LostResultsNeedFaultsHolds ==
  ASSUME SuffixesAreExtra
  PROVE  Spec => []LostResultsNeedFaults
<1>1. PInv /\ Accounted => LostResultsNeedFaults
  <2> SUFFICES ASSUME PInv, Accounted, NEW s \in active PROVE Lost(s) <= faults[s]
    BY DEF LostResultsNeedFaults
  <2>1. open[s] \in Nat /\ faults[s] \in Nat /\ Charge(s) <= faults[s]
    BY DEF PInv, IInv, Typed, Bounded, Accounted
  <2>2. Lost(s) \in Int /\ Lost(s) <= Excess(open[s], pc[s]) /\ Excess(open[s], pc[s]) \in Nat
    BY <2>1 DEF Lost, Excess, Reading
  <2>3. Reserve(s.kind, pc[s], at[s], s.request \in ended, PlainKnown(s, at[s])) \in Nat
    BY DEF Reserve
  <2> QED BY <2>1, <2>2, <2>3 DEF Charge
<1>2. Init => Accounted
  BY AccountInit
<1>3. PInv /\ PInv' /\ Accounted /\ [Next]_vars => Accounted'
  BY AccountStep
<1> QED BY PoolStrengthened, <1>1, <1>2, <1>3, PTL DEF Spec

-----------------------------------------------------------------------------
(* Serving: what a scraper returns that meets no failure *)

Has(s, q) == Knows(s, Statement(s.kind, q), "")

\* Tables of query_response_time that the server has, before the n-th query.
Before(s, n) ==
  (IF n > 2 /\ Has(s, 2) THEN 1 ELSE 0) + (IF n > 3 /\ Has(s, 3) THEN 1 ELSE 0) +
    (IF n > 4 /\ Has(s, 4) THEN 1 ELSE 0)

\* Where a scraper is that meets no failure: past the forms that its server does not
\* know, with a result read for each table that it has.
Right(s, step, p, results, returned) ==
  /\ s.kind = "slave_status" /\ step \in {"send", "sent"} =>
       (\A q \in 1..3 : q < p.q => ~Has(s, q)) /\ (p.suffix > 0 => ~Has(s, p.q))
  /\ s.kind = "slave_hosts" /\ step \in {"send", "sent"} /\ p.q = 2 => ~Has(s, 1)
  /\ s.kind = "query_response_time" /\ step \in {"variables", "rows"} => Has(s, p.q)
  /\ step # "returned" =>
       results = IF s.kind = "query_response_time" THEN Before(s, p.q) ELSE 0
  /\ step = "returned" /\ Wanted(s) => returned = "nil" /\ results = Results(s)

Steady(s) == Undisturbed(s) /\ ~(s.kind = "transporters" /\ s \in overtaken)

Serving == \A s \in active : Steady(s) => Right(s, pc[s], at[s], read[s], result[s])

SInv == PInv /\ Serving

\* An answer of a server that fails nothing.
Truth(s, p, answer) ==
  LET known == Text(s.kind, p) \in server[s.request]
      off   == IsCheck(s.kind, p) /\ Knows(s, Statement(s.kind, p.q), "OFF")
  IN  \/ answer = "ok" /\ known /\ ~off
      \/ answer = "off" /\ known /\ off
      \/ answer = "unknown" /\ ~known

\* A scraper is right wherever the answer leads it.
Follows(s, p, results, returned, a) ==
  /\ a.to = "query" => Right(s, "send", a, results, returned)
  /\ a.to = "rows" => Right(s, "variables", p, results, returned)
  /\ a.to \in {"nil", "error"} => Right(s, "returned", p, results, a.to)

\* What is asked for at suffix 0 is the plain statement.
LEMMA PlainText ==
  ASSUME NEW s, NEW p, p.suffix = 0
  PROVE  Text(s.kind, p) \in server[s.request] <=> Has(s, p.q)
BY DEF Text, Has, Knows

\* One table more.
LEMMA BeforeNext ==
  ASSUME NEW s, NEW q \in 1..4
  PROVE  /\ Before(s, q + 1) = Before(s, q) + (IF q >= 2 /\ Has(s, q) THEN 1 ELSE 0)
         /\ Before(s, q) \in 0..2 /\ Before(s, 1) = 0 /\ Before(s, 2) = 0
<1>1. q \in {1, 2, 3, 4}
  OBVIOUS
<1> QED BY <1>1 DEF Before

\* The tables of query_response_time, counted one by one.
LEMMA CountResults ==
  ASSUME NEW s, s.kind = "query_response_time"
  PROVE  Results(s) = Before(s, 5)
<1> DEFINE S2 == IF Has(s, 2) THEN {2} ELSE {}
           S3 == IF Has(s, 3) THEN S2 \cup {3} ELSE S2
           S4 == IF Has(s, 4) THEN S3 \cup {4} ELSE S3
<1>1. /\ IsFiniteSet({}) /\ Cardinality({}) = 0
      /\ IsFiniteSet({2}) /\ Cardinality({2}) = 1
  BY FS_EmptySet, FS_Singleton
<1>2. IsFiniteSet(S2) /\ 3 \notin S2 /\ 4 \notin S2
      /\ Cardinality(S2) = IF Has(s, 2) THEN 1 ELSE 0
  BY <1>1
<1> HIDE DEF S2
<1>3. IsFiniteSet(S3) /\ 4 \notin S3
      /\ Cardinality(S3) = Cardinality(S2) + (IF Has(s, 3) THEN 1 ELSE 0)
  <2>1. IsFiniteSet(S2 \cup {3}) /\ Cardinality(S2 \cup {3}) = Cardinality(S2) + 1
    BY <1>2, FS_AddElement
  <2>2. Cardinality(S2) \in Nat
    BY <1>2, FS_CardinalityType
  <2> QED BY <1>2, <2>1, <2>2
<1>4. Cardinality(S4) = Cardinality(S3) + (IF Has(s, 4) THEN 1 ELSE 0)
  <2> HIDE DEF S3
  <2>1. Cardinality(S3 \cup {4}) = Cardinality(S3) + 1
    BY <1>3, FS_AddElement
  <2>2. Cardinality(S3) \in Nat
    BY <1>3, FS_CardinalityType
  <2> QED BY <2>1, <2>2
<1>5. {q \in 2..4 : Has(s, q)} = S4
  <2>1. 2..4 = {2, 3, 4}
    OBVIOUS
  <2> QED BY <2>1 DEF S2
<1>6. Results(s) = Cardinality({q \in 2..4 : Has(s, q)})
  BY DEF Results, Has
<1> HIDE DEF S3, S4
<1>7. Before(s, 5) = (IF Has(s, 2) THEN 1 ELSE 0) + (IF Has(s, 3) THEN 1 ELSE 0) +
                       (IF Has(s, 4) THEN 1 ELSE 0)
  BY DEF Before
<1>8. Cardinality(S4) = (IF Has(s, 2) THEN 1 ELSE 0) + (IF Has(s, 3) THEN 1 ELSE 0) +
                          (IF Has(s, 4) THEN 1 ELSE 0)
  BY <1>2, <1>3, <1>4
<1> QED BY <1>5, <1>6, <1>7, <1>8

\* slave_status has found every form before the present one unknown.
LEMMA SlaveStatusRight ==
  ASSUME NEW s, s.kind = "slave_status", NEW p \in Positions, p.q <= 3, NEW answer,
         NEW results, NEW returned,
         Right(s, "sent", p, results, returned), Truth(s, p, answer)
  PROVE  Follows(s, p, results, returned, SlaveStatusNext(p, answer))
<1> DEFINE a == SlaveStatusNext(p, answer)
           H(q) == Has(s, q)
<1>1. p.q \in 1..3 /\ p.suffix \in 0..3
  BY DEF Positions
<1>2. (\A q \in 1..3 : q < p.q => ~H(q)) /\ (p.suffix > 0 => ~H(p.q)) /\ results = 0
  BY DEF Right
<1>3. p.suffix = 0 /\ answer # "ok" => ~H(p.q)
  BY PlainText DEF Truth, IsCheck
<1>4. (answer = "ok" /\ p.suffix = 0) \/ ~H(p.q)
  BY <1>1, <1>2, <1>3
<1>5. Wanted(s) <=> \E q \in 1..3 : H(q)
  BY DEF Wanted, Has
<1>6. a.to = "query" =>
        /\ ~H(p.q)
        /\ a.q \in {p.q, p.q + 1}
  BY <1>1, <1>4 DEF SlaveStatusNext, Query, Suffix, Rows, Return
<1>7. a.to \in {"nil", "error"} => p.q = 3 /\ ~H(p.q)
  BY <1>1, <1>4 DEF SlaveStatusNext, Query, Suffix, Rows, Return
<1> HIDE DEF H, a
<1>8. a.to = "query" => \A q \in 1..3 : q < a.q => ~H(q)
  BY <1>1, <1>2, <1>6
<1>9. a.to = "query" /\ a.suffix > 0 => a.q = p.q
  BY <1>1 DEF a, SlaveStatusNext, Query, Suffix, Rows, Return
<1>10. a.to \in {"nil", "error"} => ~Wanted(s)
  BY <1>1, <1>2, <1>5, <1>7
<1> QED BY <1>2, <1>6, <1>8, <1>9, <1>10 DEF Follows, Right, H, a

\* slave_hosts asks for the second form when the first is unknown.
LEMMA SlaveHostsRight ==
  ASSUME NEW s, s.kind = "slave_hosts", NEW p \in Positions, p.q <= 2, p.suffix = 0,
         NEW answer, NEW results, NEW returned,
         Right(s, "sent", p, results, returned), Truth(s, p, answer)
  PROVE  Follows(s, p, results, returned, SlaveHostsNext(p, answer))
<1>1. p.q \in {1, 2}
  BY DEF Positions
<1>2. answer \in {"ok", "unknown"} /\ (answer # "ok" => ~Has(s, p.q))
  BY PlainText DEF Truth, IsCheck
<1>3. (p.q = 2 => ~Has(s, 1)) /\ results = 0
  BY DEF Right
<1>4. Wanted(s) <=> Has(s, 1) \/ Has(s, 2)
  BY DEF Wanted, Has
<1> QED BY <1>1, <1>2, <1>3, <1>4 DEF Follows, Right, SlaveHostsNext, Query, Rows, Return

\* replica_host returns nil where the table is unknown.
LEMMA ReplicaHostRight ==
  ASSUME NEW s, s.kind = "replica_host", NEW p \in Positions, p.q <= 1, p.suffix = 0,
         NEW answer, NEW results, NEW returned,
         Right(s, "sent", p, results, returned), Truth(s, p, answer)
  PROVE  Follows(s, p, results, returned, ReplicaHostNext(p, answer))
<1>1. p.q = 1
  BY DEF Positions
<1>2. answer # "ok" => ~Has(s, 1)
  BY <1>1, PlainText DEF Truth, IsCheck
<1>3. Wanted(s) <=> Has(s, 1)
  BY DEF Wanted, Has
<1>4. results = 0
  BY DEF Right
<1> QED BY <1>2, <1>3, <1>4 DEF Follows, Right, ReplicaHostNext, Rows, Return

\* transporters asks without the column where the server does not have it.
LEMMA TransportersRight ==
  ASSUME NEW s, s.kind = "transporters", NEW p \in Positions, p.q <= 2, p.suffix = 0,
         NEW answer, NEW results, NEW returned,
         Right(s, "sent", p, results, returned), Truth(s, p, answer)
  PROVE  Follows(s, p, results, returned, TransportersNext(p, answer))
<1>1. p.q \in {1, 2}
  BY DEF Positions
<1>2. answer # "ok" => ~Has(s, p.q)
  BY PlainText DEF Truth, IsCheck
<1>3. Wanted(s) <=> Has(s, 2)
  BY DEF Wanted, Has
<1>4. results = 0
  BY DEF Right
<1> QED BY <1>1, <1>2, <1>3, <1>4 DEF Follows, Right, TransportersNext, Query, Rows, Return

\* The scrapers with a check: what an answer says of the check and of the first table.
LEMMA CheckAnswers ==
  ASSUME NEW s, s.kind \in {"userstats", "query_response_time", "binlog_size"},
         NEW p \in Positions, p.suffix = 0, NEW answer, Truth(s, p, answer)
  PROVE  /\ p.q \in {1, 2} /\ answer # "ok" => ~Wanted(s)
         /\ answer = "off" => p.q = 1
         /\ p.q # 1 => (answer = "ok" <=> Has(s, p.q))
<1>1. Wanted(s) <=> /\ Has(s, 1) /\ Has(s, 2)
                    /\ ~Knows(s, Statement(s.kind, 1), "OFF")
  <2>1. Wanted(s) <=> /\ \E q \in {1} : Has(s, q)
                      /\ ~Knows(s, Statement(s.kind, 1), "OFF")
                      /\ \E q \in {2} : Has(s, q)
    BY DEF Wanted, Has
  <2> QED BY <2>1
<1>2. Text(s.kind, p) \in server[s.request] <=> Has(s, p.q)
  BY PlainText
<1> QED BY <1>1, <1>2 DEF Truth, IsCheck

\* userstats returns nil when the check says that there is nothing.
LEMMA UserStatRight ==
  ASSUME NEW s, s.kind = "userstats", NEW p \in Positions, p.q <= 2, p.suffix = 0,
         NEW answer, NEW results, NEW returned,
         Right(s, "sent", p, results, returned), Truth(s, p, answer)
  PROVE  Follows(s, p, results, returned, UserStatNext(p, answer))
<1>1. p.q \in {1, 2}
  BY DEF Positions
<1>2. answer # "ok" => ~Wanted(s)
  BY <1>1, CheckAnswers
<1>3. results = 0
  BY DEF Right
<1> QED BY <1>1, <1>2, <1>3 DEF Follows, Right, UserStatNext, Query, Rows, Return

\* binlog_size as well, and an error where the variable is unknown.
LEMMA BinlogSizeRight ==
  ASSUME NEW s, s.kind = "binlog_size", NEW p \in Positions, p.q <= 2, p.suffix = 0,
         NEW answer, NEW results, NEW returned,
         Right(s, "sent", p, results, returned), Truth(s, p, answer)
  PROVE  Follows(s, p, results, returned, BinlogSizeNext(p, answer))
<1>1. p.q \in {1, 2}
  BY DEF Positions
<1>2. answer # "ok" => ~Wanted(s)
  BY <1>1, CheckAnswers
<1>3. results = 0
  BY DEF Right
<1> QED BY <1>1, <1>2, <1>3 DEF Follows, Right, BinlogSizeNext, Query, Rows, Return

\* query_response_time goes from a table that it has read, or that its server does not
\* have, to the next one.
LEMMA QueryResponseTimeRight ==
  ASSUME NEW s, s.kind = "query_response_time", NEW p \in Positions, p.suffix = 0,
         NEW answer, NEW results, NEW returned,
         Right(s, "sent", p, results, returned), Truth(s, p, answer)
  PROVE  Follows(s, p, results, returned, QueryResponseTimeNext(p, answer))
<1> DEFINE a == QueryResponseTimeNext(p, answer)
<1>1. p.q \in 1..4
  BY DEF Positions
<1>2. results = Before(s, p.q)
  BY DEF Right
<1>3. p.q \in {1, 2} /\ answer # "ok" => ~Wanted(s)
  BY CheckAnswers
<1>4. p.q # 1 => (answer = "ok" <=> Has(s, p.q))
  BY CheckAnswers
<1>5. /\ Before(s, p.q + 1) = Before(s, p.q) + (IF p.q >= 2 /\ Has(s, p.q) THEN 1 ELSE 0)
      /\ Before(s, p.q) \in 0..2 /\ Before(s, 1) = 0 /\ Before(s, 2) = 0
  BY <1>1, BeforeNext
<1>6. Results(s) = Before(s, 5)
  BY CountResults
<1>7. CASE p.q = 1
  <2>1. a = Query(2) \/ (a = Return("nil") /\ answer # "ok")
    BY <1>7 DEF QueryResponseTimeNext
  <2> HIDE DEF a
  <2>2. CASE a = Query(2)
    BY <1>2, <1>5, <1>7, <2>2 DEF Follows, Right, Query, a
  <2>3. CASE a = Return("nil") /\ answer # "ok"
    BY <1>3, <1>7, <2>3 DEF Follows, Right, Return, a
  <2> QED BY <2>1, <2>2, <2>3 DEF a
<1>8. CASE p.q > 1 /\ answer = "ok"
  <2>1. a = Rows
    BY <1>1, <1>8 DEF QueryResponseTimeNext
  <2> HIDE DEF a
  <2> QED BY <1>2, <1>4, <1>8, <2>1 DEF Follows, Right, Rows, a
<1>9. CASE p.q = 2 /\ answer # "ok"
  <2>1. a = Return("error")
    BY <1>9 DEF QueryResponseTimeNext
  <2> HIDE DEF a
  <2> QED BY <1>3, <1>9, <2>1 DEF Follows, Right, Return, a
<1>10. CASE p.q = 3 /\ answer # "ok"
  <2>1. a = Query(4)
    BY <1>10 DEF QueryResponseTimeNext
  <2> HIDE DEF a
  <2>2. results = Before(s, 4)
    BY <1>2, <1>4, <1>5, <1>10
  <2> QED BY <2>1, <2>2 DEF Follows, Right, Query, a
<1>11. CASE p.q = 4 /\ answer # "ok"
  <2>1. a = Return("nil")
    BY <1>11 DEF QueryResponseTimeNext
  <2> HIDE DEF a
  <2>2. results = Results(s)
    BY <1>2, <1>4, <1>5, <1>6, <1>11
  <2> QED BY <2>1, <2>2 DEF Follows, Right, Return, a
<1> QED BY <1>1, <1>7, <1>8, <1>9, <1>10, <1>11

\* The same for every kind.
LEMMA AfterRight ==
  ASSUME NEW s, s.kind \in Kinds, NEW p \in Positions, p.q <= LastQuery(s.kind),
         s.kind # "slave_status" => p.suffix = 0,
         NEW answer, NEW results, NEW returned,
         Right(s, "sent", p, results, returned), Truth(s, p, answer)
  PROVE  Follows(s, p, results, returned, After(s.kind, p, answer))
<1>1. CASE s.kind = "slave_status"
  BY <1>1, SlaveStatusRight DEF After, LastQuery
<1>2. CASE s.kind = "slave_hosts"
  BY <1>2, SlaveHostsRight DEF After, LastQuery
<1>3. CASE s.kind = "replica_host"
  BY <1>3, ReplicaHostRight DEF After, LastQuery
<1>4. CASE s.kind = "transporters"
  BY <1>4, TransportersRight DEF After, LastQuery
<1>5. CASE s.kind = "userstats"
  BY <1>5, UserStatRight DEF After, LastQuery
<1>6. CASE s.kind = "query_response_time"
  BY <1>6, QueryResponseTimeRight DEF After, LastQuery
<1>7. CASE s.kind = "binlog_size"
  BY <1>7, BinlogSizeRight DEF After, LastQuery
<1> QED BY <1>1, <1>2, <1>3, <1>4, <1>5, <1>6, <1>7 DEF Kinds

\* Being right is about the servers, which stay as they are.
LEMMA RightStays ==
  ASSUME NEW s, NEW step, NEW p, NEW results, NEW returned, server' = server
  PROVE  Right(s, step, p, results, returned)' <=> Right(s, step, p, results, returned)
<1>1. \A q : Has(s, q)' <=> Has(s, q)
  BY DEF Has, Knows
<1>2. Wanted(s)' <=> Wanted(s)
  BY DEF Wanted, Knows
<1>3. Results(s)' = Results(s)
  BY DEF Results, Knows
<1>4. \A n : Before(s, n)' = Before(s, n)
  BY <1>1 DEF Before
<1> QED BY <1>1, <1>2, <1>3, <1>4 DEF Right

\* Who is undisturbed after a step was so before.
LEMMA SteadyBefore ==
  ASSUME Typed, active' = active, Grows, ended \subseteq ended', overtaken \subseteq overtaken',
         NEW s \in active, Steady(s)'
  PROVE  Steady(s) /\ faults[s] = 0 /\ faults'[s] = 0 /\ s.request \notin ended'
<1>1. faults[s] \in Nat /\ faults'[s] \in Nat /\ faults'[s] >= faults[s]
  BY DEF Typed, Grows
<1>2. /\ faults'[s] = 0 /\ s.request \notin ended'
      /\ ~(s.kind = "transporters" /\ s \in overtaken')
  BY DEF Steady, Undisturbed
<1>3. faults[s] = 0
  BY <1>1, <1>2
<1> QED BY <1>2, <1>3 DEF Steady, Undisturbed

\* A step of one scraper, that is right where it goes.
LEMMA OneRight ==
  ASSUME Typed, Serving, UNCHANGED <<server, active>>, Grows, ended \subseteq ended',
         overtaken \subseteq overtaken', NEW s \in active,
         \A t \in active \ {s} :
           pc'[t] = pc[t] /\ at'[t] = at[t] /\ read'[t] = read[t] /\ result'[t] = result[t],
         Steady(s)' => Right(s, pc'[s], at'[s], read'[s], result'[s])
  PROVE  Serving'
<1> SUFFICES ASSUME NEW t \in active, Steady(t)'
             PROVE  Right(t, pc[t], at[t], read[t], result[t])'
  BY DEF Serving
<1>1. Right(t, pc'[t], at'[t], read'[t], result'[t])
  <2>1. CASE t = s
    BY <2>1
  <2>2. CASE t # s
    <3>1. Right(t, pc[t], at[t], read[t], result[t])
      BY SteadyBefore DEF Serving
    <3> QED BY <2>2, <3>1
  <2> QED BY <2>1, <2>2
<1>2. PICK step, p, results, returned :
        step = pc'[t] /\ p = at'[t] /\ results = read'[t] /\ returned = result'[t]
  OBVIOUS
<1>3. Right(t, step, p, results, returned)
  BY <1>1, <1>2
<1>4. Right(t, step, p, results, returned)'
  BY <1>3, RightStays
<1> QED BY <1>2, <1>4

\* A scraper goes to where it is right.
LEMMA GoRight ==
  ASSUME SInv, NEW s \in active, NEW a \in Targets, NEW opened, GoTo(s, a, opened),
         UNCHANGED <<server, active>>, Grows, ended \subseteq ended',
         overtaken \subseteq overtaken',
         \A t \in active \ {s} : read'[t] = read[t],
         NEW results, results = read'[s],
         Steady(s)' => Follows(s, at[s], results, result[s], a)
  PROVE  Serving'
<1>1. Typed /\ Serving
  BY DEF SInv, PInv, IInv
<1>2. /\ \A t \in active \ {s} : pc'[t] = pc[t] /\ at'[t] = at[t] /\ result'[t] = result[t]
      /\ a.to = "query" => pc'[s] = "send" /\ at'[s] = a /\ result'[s] = result[s]
      /\ a.to = "rows" => pc'[s] = "variables" /\ at'[s] = at[s] /\ result'[s] = result[s]
      /\ a.to \in {"nil", "error"} =>
           pc'[s] = "returned" /\ at'[s] = at[s] /\ result'[s] = a.to
  BY <1>1, GoToEffect
<1>3. a.to \in {"query", "rows", "nil", "error"}
  BY DEF Targets, Positions, Rows, Return
<1>4. ASSUME Steady(s)' PROVE Right(s, pc'[s], at'[s], read'[s], result'[s])
  <2>0. Follows(s, at[s], results, result[s], a)
    BY <1>4
  <2>1. CASE a.to = "query"
    BY <1>2, <2>0, <2>1 DEF Follows
  <2>2. CASE a.to = "rows"
    BY <1>2, <2>0, <2>2 DEF Follows
  <2>3. CASE a.to \in {"nil", "error"}
    BY <1>2, <2>0, <2>3 DEF Follows
  <2> QED BY <1>3, <2>1, <2>2, <2>3
<1> QED BY <1>1, <1>2, <1>4, OneRight

\* A scraper starts with no form behind it.
LEMMA BeginServes == ASSUME SInv, NEW s \in active, Begin(s) PROVE Serving'
<1>1. pc[s] = "idle" /\ GoTo(s, First(s.kind), 0)
      /\ UNCHANGED <<server, active, read, ended, faults, overtaken>>
  BY DEF Begin
<1>2. Grows /\ read[s] = 0
  BY <1>1, NoFault DEF SInv, PInv, IInv, Fitting, Fits
<1>3. First(s.kind) \in Targets /\ First(s.kind).to = "query" /\ First(s.kind).suffix = 0
      /\ (s.kind # "transporters" => First(s.kind).q = 1)
  BY DEF First, Query, Targets, Positions
<1>4. Follows(s, at[s], 0, result[s], First(s.kind))
  <2>1. Before(s, 1) = 0
    BY DEF Before
  <2> QED BY <1>3, <2>1 DEF Follows, Right
<1> QED BY <1>1, <1>2, <1>3, <1>4, GoRight

\* The query under way is the one to send.
LEMMA SendServes == ASSUME SInv, NEW s \in active, Send(s) PROVE Serving'
<1>1. /\ pc[s] = "send" /\ pc' = [pc EXCEPT ![s] = "sent"]
      /\ UNCHANGED <<server, active, at, read, result, ended, faults, overtaken>>
  BY DEF Send
<1>2. Typed /\ Serving
  BY DEF SInv, PInv, IInv
<1>3. Grows /\ pc'[s] = "sent" /\ \A t \in active \ {s} : pc'[t] = pc[t]
  BY <1>1, <1>2, NoFault DEF Typed
<1>4. ASSUME Steady(s)' PROVE Right(s, "sent", at[s], read[s], result[s])
  <2>1. Right(s, "send", at[s], read[s], result[s])
    BY <1>1, <1>2, <1>3, <1>4, SteadyBefore DEF Serving
  <2> QED BY <2>1 DEF Right
<1> QED BY <1>1, <1>2, <1>3, <1>4, OneRight

\* A query that the server knows succeeds, and the others are unknown.
LEMMA AnswerServes ==
  ASSUME SInv, NEW s \in active, Answers(s) \/ IsUnknown(s) \/ Fails(s) \/ NotSent(s)
  PROVE  Serving'
<1>1. Typed /\ Fitting /\ Serving /\ at[s] \in Positions /\ s.kind \in Kinds
  BY KindsOfActive DEF SInv, PInv, IInv, Typed
<1>2. UNCHANGED faults \/ (Fails(s) /\ Fault(s))
  BY DEF Answers, IsUnknown, Fails, NotSent
<1>3. Grows
  BY <1>1, <1>2, NoFault, FaultGrows
<1>4. PICK answer : /\ Take(s, answer)
                    /\ \/ pc[s] = "sent" /\ Truth(s, at[s], answer)
                       \/ Fails(s) \/ NotSent(s)
  BY DEF Answers, IsUnknown, Fails, NotSent, Known, IsOff, Truth
<1> DEFINE a == After(s.kind, at[s], answer)
<1>5. a \in Targets
  BY <1>1, AfterTargets
<1>6. PICK opened : GoTo(s, a, opened)
  BY <1>4 DEF Take
<1>7. overtaken \subseteq overtaken' /\ UNCHANGED <<server, active, read, ended>>
  BY <1>4 DEF Take
<1>8. at[s].q <= LastQuery(s.kind) /\ (s.kind # "slave_status" => at[s].suffix = 0)
  BY <1>1 DEF Fitting, Fits
<1>9. ASSUME Steady(s)' PROVE Follows(s, at[s], read[s], result[s], a)
  <2>1. Steady(s) /\ faults[s] = 0 /\ faults'[s] = 0 /\ s.request \notin ended
    BY <1>1, <1>3, <1>7, <1>9, SteadyBefore
  <2>2. ~NotSent(s)
    BY <2>1 DEF NotSent
  <2>3. ~Fails(s)
    <3>1. Fault(s) => faults'[s] = faults[s] + 1
      BY <1>1, FaultGrows
    <3> QED BY <2>1, <3>1 DEF Fails
  <2>4. pc[s] = "sent" /\ Truth(s, at[s], answer)
    BY <1>4, <2>2, <2>3
  <2>5. Right(s, "sent", at[s], read[s], result[s])
    BY <1>1, <2>1, <2>4 DEF Serving
  <2> QED BY <1>1, <1>8, <2>4, <2>5, AfterRight
<1> HIDE DEF a
<1> QED BY <1>3, <1>5, <1>6, <1>7, <1>9, GoRight

\* The result of a query is there to be scanned.
LEMMA VariablesServes == ASSUME SInv, NEW s \in active, Variables(s) PROVE Serving'
<1>1. /\ pc[s] = "variables" /\ pc' = [pc EXCEPT ![s] = "rows"]
      /\ UNCHANGED <<server, active, at, read, result, ended, faults, overtaken>>
  BY DEF Variables
<1>2. Typed /\ Serving
  BY DEF SInv, PInv, IInv
<1>3. Grows /\ pc'[s] = "rows" /\ \A t \in active \ {s} : pc'[t] = pc[t]
  BY <1>1, <1>2, NoFault DEF Typed
<1>4. ASSUME Steady(s)' PROVE Right(s, "rows", at[s], read[s], result[s])
  <2>1. Right(s, "variables", at[s], read[s], result[s])
    BY <1>1, <1>2, <1>3, <1>4, SteadyBefore DEF Serving
  <2> QED BY <2>1 DEF Right
<1> QED BY <1>1, <1>2, <1>3, <1>4, OneRight

\* The last row counts the table as read, and leads to the next one or to the end.
LEMMA RowsEndServes == ASSUME SInv, NEW s \in active, RowsEnd(s) PROVE Serving'
<1> DEFINE a == AfterRows(s.kind, at[s])
<1>1. /\ pc[s] = "rows" /\ read' = [read EXCEPT ![s] = @ + 1]
      /\ GoTo(s, a, Close(s))
      /\ UNCHANGED <<server, active, ended, faults, overtaken>>
  BY DEF RowsEnd
<1>2. Typed /\ Serving /\ at[s] \in Positions /\ read[s] \in Nat
  BY DEF SInv, PInv, IInv, Typed
<1>3. a \in Targets
  BY <1>2, AfterRowsTargets
<1>4. Grows /\ read'[s] = read[s] + 1 /\ \A t \in active \ {s} : read'[t] = read[t]
  BY <1>1, <1>2, NoFault DEF Typed
<1>5. ASSUME Steady(s)' PROVE Follows(s, at[s], read[s] + 1, result[s], a)
  <2>1. Right(s, "rows", at[s], read[s], result[s])
    BY <1>1, <1>2, <1>4, <1>5, SteadyBefore DEF Serving
  <2>2. CASE s.kind = "query_response_time"
    <3>1. at[s].q \in 1..4 /\ at[s].q # 1
      BY <1>1, <1>2, <2>2 DEF SInv, PInv, Fitting, Fits, IsCheck, Positions
    <3>2. read[s] = Before(s, at[s].q) /\ Has(s, at[s].q)
      BY <2>1, <2>2 DEF Right
    <3>3. read[s] + 1 = Before(s, at[s].q + 1)
      BY <3>1, <3>2, BeforeNext
    <3>4. CASE at[s].q < 4
      <4>1. a = Query(at[s].q + 1)
        BY <2>2, <3>4 DEF AfterRows
      <4>2. a.to = "query" /\ a.q = at[s].q + 1
        BY <4>1 DEF Query
      <4> HIDE DEF a
      <4> QED BY <2>2, <3>3, <4>2 DEF Follows, Right
    <3>5. CASE at[s].q = 4
      <4>1. a = Return("nil")
        BY <3>5 DEF AfterRows
      <4>2. a.to = "nil" /\ read[s] + 1 = Results(s)
        BY <2>2, <3>3, <3>5, <4>1, CountResults DEF Return
      <4> HIDE DEF a
      <4> QED BY <4>2 DEF Follows, Right
    <3> QED BY <3>1, <3>4, <3>5
  <2>3. CASE s.kind # "query_response_time"
    <3>1. a.to = "nil"
      BY <2>3 DEF AfterRows, Return
    <3>2. read[s] + 1 = Results(s)
      BY <2>1, <2>3 DEF Right, Results
    <3> HIDE DEF a
    <3> QED BY <3>1, <3>2 DEF Follows, Right
  <2> QED BY <2>2, <2>3
<1>6. PICK results : results = read'[s]
  OBVIOUS
<1> HIDE DEF a
<1>7. Steady(s)' => Follows(s, at[s], results, result[s], a)
  BY <1>4, <1>5, <1>6
<1> QED BY <1>1, <1>3, <1>4, <1>6, <1>7, GoRight

\* Without a failure of its own a scraper scans every row: there is a variable for each
\* column, or another scrape has overtaken it.
LEMMA ScanFailsServes == ASSUME SInv, NEW s \in active, ScanFails(s) PROVE Serving'
<1>1. PICK p \in ScanFailure(s) : GoTo(s, p, Close(s))
  BY DEF ScanFails
<1>2. /\ pc[s] = "rows" /\ UNCHANGED <<server, active, read, ended, overtaken>>
      /\ (Mismatch(s) /\ UNCHANGED faults) \/ Fault(s)
  BY DEF ScanFails
<1>3. Typed /\ IInv /\ at[s] \in Positions
  BY DEF SInv, PInv, IInv, Typed
<1>4. p \in Targets
  BY <1>3, ScanFailureTargets
<1>5. Grows
  BY <1>2, <1>3, NoFault, FaultGrows
<1>6. ~Steady(s)'
  <2> SUFFICES ASSUME Steady(s)' PROVE FALSE
    OBVIOUS
  <2>1. Steady(s) /\ faults[s] = 0 /\ faults'[s] = 0
    BY <1>2, <1>3, <1>5, SteadyBefore
  <2>2. ~Fault(s)
    BY <1>3, <2>1, FaultGrows
  <2>3. Mismatch(s)
    BY <1>2, <2>2
  <2>4. s.kind = "transporters" /\ s \notin overtaken
    BY <2>1, <2>3 DEF Steady, Mismatch
  <2> QED BY <1>2, <1>3, <2>3, <2>4, ColumnsFit
<1> QED BY <1>1, <1>2, <1>4, <1>5, <1>6, GoRight

\* Nothing was asked at the beginning.
LEMMA ServingInit == Init => Serving
<1> SUFFICES ASSUME Init, NEW s \in active PROVE Right(s, "idle", Query(1), 0, None)
  BY DEF Init, Serving
<1>1. Before(s, 1) = 0 /\ Query(1).q = 1
  BY DEF Before, Query
<1> QED BY <1>1 DEF Right

\* A step that only fails, ends or overtakes keeps what Serving says of the others.
LEMMA ServingSame ==
  ASSUME Typed, Serving, UNCHANGED <<server, active, pc, at, read, result, overtaken, faults>>,
         ended \subseteq ended'
  PROVE  Serving'
<1> SUFFICES ASSUME NEW s \in active, Steady(s)'
             PROVE  Right(s, pc[s], at[s], read[s], result[s])'
  BY DEF Serving
<1>1. Grows
  BY NoFault
<1>2. Right(s, pc[s], at[s], read[s], result[s])
  BY <1>1, SteadyBefore DEF Serving
<1>3. PICK step, p, results, returned :
        step = pc[s] /\ p = at[s] /\ results = read[s] /\ returned = result[s]
  OBVIOUS
<1>4. Right(s, step, p, results, returned)'
  BY <1>2, <1>3, RightStays
<1>5. step = pc'[s] /\ p = at'[s] /\ results = read'[s] /\ returned = result'[s]
  BY <1>3
<1> QED BY <1>4, <1>5

\* Each step keeps the scrapers right.  (every Scrape of module Fallbacks)
LEMMA ServingStep == SInv /\ [Next]_vars => Serving'
<1> SUFFICES ASSUME SInv, [Next]_vars PROVE Serving'
  OBVIOUS
<1>0. Typed /\ Serving
  BY DEF SInv, PInv, IInv
<1>1. ASSUME NEW s \in active, Scrape(s) PROVE Serving'
  <2>1. CASE Scan(s)
    BY <1>0, <2>1, ServingSame DEF Scan
  <2> QED
    BY <1>1, <2>1, BeginServes, SendServes, AnswerServes, VariablesServes, ScanFailsServes,
       RowsEndServes DEF Scrape
<1>2. ASSUME NEW r, ContextDone(r) PROVE Serving'
  BY <1>0, <1>2, ServingSame DEF ContextDone
<1>3. CASE UNCHANGED vars
  BY <1>0, <1>3, ServingSame DEF vars
<1> QED BY <1>1, <1>2, <1>3 DEF Next, AllReturned

\* A scraper that meets no failure itself reads each table that its server has and says
\* so, whatever forms of its statements the server knows, whatever other servers know, and
\* whatever fails or ends beside it; only a scrape of transporters that was at work when
\* another turned the flag off may err without a failure of its own.
\* (every Scrape of module Fallbacks, and ndbinfo_transporters.go:48)
THEOREM ServedHolds == Spec => []Served
<1>1. Init => SInv
  BY ServingInit, InitEstablishes, PoolInit DEF SInv, PInv
<1>2. SInv /\ [Next]_vars => SInv'
  BY ServingStep, StepKeeps, PoolStep DEF SInv, PInv
<1>3. SInv => Served
  <2> SUFFICES ASSUME SInv, NEW s \in active, pc[s] = "returned", Wanted(s), Undisturbed(s),
                      ~(s.kind = "transporters" /\ s \in overtaken)
               PROVE  result[s] = "nil" /\ read[s] = Results(s)
    BY DEF Served
  <2>1. Right(s, "returned", at[s], read[s], result[s])
    BY DEF SInv, Serving, Steady
  <2> QED BY <2>1 DEF Right
<1> QED BY <1>1, <1>2, <1>3, PTL DEF Spec

=============================================================================
