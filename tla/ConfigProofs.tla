---------------------------- MODULE ConfigProofs ----------------------------
(***************************************************************************)
(* Safety of Config for any number of concurrent reloads and requests, any *)
(* sections and any number of edits of the file.                           *)
(***************************************************************************)
EXTENDS Config, TLAPS

-----------------------------------------------------------------------------
(* Types *)

LEMMA ParsedType ==
  ASSUME NEW v \in Versions, NEW sec \in [Sections -> AllKinds]
  PROVE  [version |-> v, sec |-> Valid(sec)] \in Parsed
<1>1. Valid(sec) \in [Sections -> Usable \cup {"absent"}]
  BY DEF Valid
<1> QED BY <1>1 DEF Parsed

LEMMA KindsType == FileContents \subseteq [Sections -> AllKinds]
BY KindsAssumption DEF FileContents

LEMMA TypeInit == Init => TypeOK
<1> SUFFICES ASSUME Init PROVE TypeOK
  OBVIOUS
<1>1. 0 \in Versions
  BY EditsAssumption DEF Versions
<1>2. file \in [version : Versions, loads : BOOLEAN, sec : [Sections -> AllKinds]]
  <2>1. file \in [version : {0}, loads : {TRUE}, sec : FileContents]
    BY DEF Init
  <2> QED BY <1>1, <2>1, KindsType
<1>3. config \in Parsed
  <2>1. file.sec \in [Sections -> AllKinds]
    BY <1>2
  <2> QED BY <1>1, <2>1, ParsedType DEF Init
<1>4. registry \in [Sections -> TLS \cup {NULL}]
  BY DEF Init
<1>5. reload \in [Reloaders -> ReloadState]
  BY <1>3 DEF Init, ReloadState
<1>6. probe \in [Probes -> ProbeState]
  <2>1. \A x \in Targets :
          [pc |-> "idle", handler |-> "metrics", section |-> Client,
           target |-> x, cfg |-> config, name |-> NULL,
           outcome |-> "none", tls |-> NULL] \in ProbeState
    BY <1>3, SectionsAssumption DEF ProbeState
  <2> QED BY <2>1 DEF Init
<1> QED BY <1>2, <1>3, <1>4, <1>5, <1>6 DEF Init, TypeOK

LEMMA TypeReload ==
  ASSUME TypeOK, NEW r \in Reloaders, ReloadStep(r)
  PROVE  TypeOK'
<1>0. reload[r] \in ReloadState /\ reload \in [Reloaders -> ReloadState]
  BY DEF TypeOK
<1>1. ASSUME NEW p \in ReloadState, NEW from, ReloadGoes(r, from, p)
      PROVE  reload' \in [Reloaders -> ReloadState]
  BY <1>0, <1>1 DEF ReloadGoes
<1>2. CASE ReloadLoad(r)
  <2> DEFINE ok == file.loads /\ HasSection(Valid(file.sec))
             b  == [version |-> file.version, sec |-> Valid(file.sec)]
             p  == [reload[r] EXCEPT !.pc = IF ok THEN "swap" ELSE "defer",
                                     !.built = b, !.failed = ~ok, !.reply = "none"]
  <2>1. file.version \in Versions /\ file.sec \in [Sections -> AllKinds]
    BY DEF TypeOK
  <2>2. b \in Parsed
    BY <2>1, ParsedType
  <2>3. ok \in BOOLEAN
    BY DEF TypeOK, HasSection
  <2>4. ReloadGoes(r, "idle", p)
    BY <1>2 DEF ReloadLoad
  <2> HIDE DEF ok, b
  <2>5. p \in ReloadState
    BY <1>0, <2>2, <2>3 DEF ReloadState
  <2> QED BY <1>1, <1>2, <2>4, <2>5 DEF ReloadLoad, TypeOK
<1>3. \A q \in {"idle", "swap", "defer", "gauge", "store", "reply"} :
        [reload[r] EXCEPT !.pc = q] \in ReloadState
  BY <1>0 DEF ReloadState
<1>4. CASE ReloadSwap(r)
  <2>1. reload[r].built \in Parsed
    BY <1>0 DEF ReloadState
  <2> QED BY <1>1, <1>3, <1>4, <2>1 DEF ReloadSwap, TypeOK
<1>5. CASE ReloadDefer(r)
  <2>1. [reload[r] EXCEPT !.pc = "gauge", !.seen = pkgErr] \in ReloadState
    BY <1>0 DEF ReloadState, TypeOK
  <2> QED BY <1>1, <1>5, <2>1 DEF ReloadDefer, TypeOK
<1>6. CASE ReloadGauge(r)
  <2>1. gauge' \in BOOLEAN
    BY <1>6 DEF ReloadGauge
  <2> QED BY <1>1, <1>3, <1>6, <2>1 DEF ReloadGauge, TypeOK
<1>7. CASE ReloadStore(r)
  <2>1. mainErr' \in BOOLEAN
    BY <1>0, <1>7 DEF ReloadStore, ReloadState
  <2> QED BY <1>1, <1>3, <1>7, <2>1 DEF ReloadStore, TypeOK
<1>8. CASE ReloadReply(r)
  <2>1. [reload[r] EXCEPT !.pc = "idle", !.reply = IF mainErr THEN "empty" ELSE "ok"]
          \in ReloadState
    BY <1>0 DEF ReloadState
  <2> QED BY <1>1, <1>8, <2>1 DEF ReloadReply, TypeOK
<1> QED BY <1>2, <1>4, <1>5, <1>6, <1>7, <1>8 DEF ReloadStep

LEMMA EndsType ==
  ASSUME TypeOK, NEW p \in Probes, NEW outcome \in Done
  PROVE  Ends(p, outcome) \in ProbeState
<1>1. probe[p] \in ProbeState
  BY DEF TypeOK
<1> QED BY <1>1 DEF Ends, ProbeState

LEMMA FormErrorType ==
  ASSUME TypeOK, NEW p \in Probes
  PROVE  FormError(p) \in ProbeState
BY EndsType DEF FormError, Done

LEMMA TypeProbe ==
  ASSUME TypeOK, NEW p \in Probes, ProbeStep(p)
  PROVE  TypeOK'
<1>0. probe[p] \in ProbeState /\ probe \in [Probes -> ProbeState]
  BY DEF TypeOK
<1>1. ASSUME NEW q \in ProbeState, NEW from, ProbeGoes(p, from, q)
      PROVE  probe' \in [Probes -> ProbeState]
  BY <1>0, <1>1 DEF ProbeGoes
<1>2. \A q \in {"idle", "get", "split", "check", "tls", "open"} :
        [probe[p] EXCEPT !.pc = q] \in ProbeState
  BY <1>0 DEF ProbeState
<1>3. ASSUME NEW handler \in {"metrics", "probe"}, NEW section \in Sections,
             NEW target \in Targets, ProbeBegin(p, handler, section, target)
      PROVE  TypeOK'
  <2>1. [probe[p] EXCEPT !.pc = "get", !.handler = handler, !.section = section,
                         !.target = target, !.name = NULL,
                         !.outcome = "none", !.tls = NULL] \in ProbeState
    BY <1>0 DEF ProbeState
  <2> QED BY <1>1, <1>3, <2>1 DEF ProbeBegin, TypeOK
<1>4. CASE ProbeGetConfig(p)
  <2>1. Ends(p, "refused") \in ProbeState /\ config \in Parsed
    BY EndsType DEF Done, TypeOK
  <2>2. [Ends(p, "refused") EXCEPT !.cfg = config] \in ProbeState
    BY <2>1 DEF ProbeState
  <2>3. [probe[p] EXCEPT
          !.cfg = config,
          !.pc = IF probe[p].target \in {"good", "bad"} THEN "split" ELSE "tls"]
            \in ProbeState
    BY ZenonT(40), <1>0, <2>1 DEF ProbeState
  <2> QED BY <1>1, <1>4, <2>2, <2>3 DEF ProbeGetConfig, TypeOK
<1>5. CASE ProbeSplit(p)
  <2>1. pkgErr' \in BOOLEAN
    BY <1>5 DEF ProbeSplit
  <2> QED BY <1>1, <1>2, <1>5, <2>1 DEF ProbeSplit, TypeOK
<1>6. CASE ProbeCheck(p)
  BY <1>1, <1>2, <1>6, FormErrorType DEF ProbeCheck, TypeOK
<1>7. CASE ProbePlain(p)
  BY <1>1, <1>2, <1>7 DEF ProbePlain, TypeOK
<1>8. CASE ProbeRegister(p)
  <2>1. probe[p].section \in Sections /\ probe[p].cfg.version \in Versions
    BY <1>0 DEF ProbeState, Parsed
  <2>2. [section |-> probe[p].section, version |-> probe[p].cfg.version] \in TLS
    BY <2>1 DEF TLS
  <2>3. registry' \in [Sections -> TLS \cup {NULL}]
    BY <1>8, <2>2 DEF ProbeRegister, TypeOK
  <2>4. [probe[p] EXCEPT !.pc = "open", !.name = probe[p].section] \in ProbeState
    BY <1>0, <2>1 DEF ProbeState
  <2> QED BY <1>1, <1>8, <2>3, <2>4 DEF ProbeRegister, TypeOK
<1>9. CASE ProbeRegisterFails(p)
  BY <1>1, <1>9, FormErrorType DEF ProbeRegisterFails, TypeOK
<1>10. CASE ProbeOpen(p)
  <2> DEFINE t == IF probe[p].name = NULL THEN NULL ELSE registry[probe[p].name]
  <2>1. t \in TLS \cup {NULL}
    BY <1>0 DEF ProbeState, TypeOK
  <2>2. Ends(p, "open") \in ProbeState
    BY EndsType DEF Done
  <2>3. [Ends(p, "open") EXCEPT !.tls = t] \in ProbeState
    <3> HIDE DEF t
    <3> QED BY <2>1, <2>2 DEF ProbeState
  <2> QED BY <1>1, <1>10, <2>3 DEF ProbeOpen, TypeOK
<1> QED BY <1>3, <1>4, <1>5, <1>6, <1>7, <1>8, <1>9, <1>10 DEF ProbeStep

LEMMA TypeEdit == TypeOK /\ Edit => TypeOK'
<1> SUFFICES ASSUME TypeOK, Edit PROVE TypeOK'
  OBVIOUS
<1>1. PICK loads \in BOOLEAN, sec \in FileContents :
        file' = [version |-> file.version + 1, loads |-> loads, sec |-> sec]
  BY DEF Edit
<1>2. file.version \in Versions /\ file.version < MaxEdits
  BY DEF TypeOK, Edit
<1>3. file.version + 1 \in Versions
  BY <1>2, EditsAssumption DEF Versions
<1>4. file' \in [version : Versions, loads : BOOLEAN, sec : [Sections -> AllKinds]]
  BY <1>1, <1>3, KindsType
<1> QED BY <1>4 DEF Edit, TypeOK

LEMMA TypeStep == TypeOK /\ [Next]_vars => TypeOK'
<1> SUFFICES ASSUME TypeOK, [Next]_vars PROVE TypeOK'
  OBVIOUS
<1>1. ASSUME NEW r \in Reloaders, ReloadStep(r) PROVE TypeOK'
  BY <1>1, TypeReload
<1>2. ASSUME NEW p \in Probes, ProbeStep(p) PROVE TypeOK'
  BY <1>2, TypeProbe
<1>3. CASE UNCHANGED vars
  BY <1>3 DEF vars, TypeOK
<1> QED BY <1>1, <1>2, <1>3, TypeEdit DEF Next

\* Every shared variable and every handler's state keep their types; what is
\* in force is always made of sections that passed validateConfig.
THEOREM TypeCorrect == Spec => []TypeOK
BY TypeInit, TypeStep, PTL DEF Spec

-----------------------------------------------------------------------------
(* The configuration in force *)

\* ConfigUsable is not inductive: a configuration is built before it is
\* installed, and the test that it has a section lies between the two.
BuiltUsable ==
  \A r \in Reloaders : reload[r].pc = "swap" => HasSection(reload[r].built.sec)

UsableInv == ConfigUsable /\ BuiltUsable

LEMMA UsableReload ==
  ASSUME TypeOK, UsableInv, NEW r \in Reloaders, ReloadStep(r)
  PROVE  UsableInv'
<1>0. reload[r] \in ReloadState /\ reload \in [Reloaders -> ReloadState]
  BY DEF TypeOK
<1>1. ASSUME NEW p \in ReloadState, NEW from, ReloadGoes(r, from, p),
             p.pc = "swap" => HasSection(p.built.sec)
      PROVE  BuiltUsable'
  <2> SUFFICES ASSUME NEW u \in Reloaders, reload'[u].pc = "swap"
               PROVE  HasSection(reload'[u].built.sec)
    BY DEF BuiltUsable, HasSection
  <2>1. CASE u = r
    BY <1>0, <1>1, <2>1 DEF ReloadGoes
  <2>2. CASE u # r
    BY <1>0, <1>1, <2>2 DEF ReloadGoes, UsableInv, BuiltUsable
  <2> QED BY <2>1, <2>2
<1>2. CASE ReloadLoad(r)
  <2> DEFINE ok == file.loads /\ HasSection(Valid(file.sec))
             b  == [version |-> file.version, sec |-> Valid(file.sec)]
             p  == [reload[r] EXCEPT !.pc = IF ok THEN "swap" ELSE "defer",
                                     !.built = b, !.failed = ~ok, !.reply = "none"]
  <2>1. file.version \in Versions /\ file.sec \in [Sections -> AllKinds]
    BY DEF TypeOK
  <2>2. b \in Parsed
    BY <2>1, ParsedType
  <2>3. ok \in BOOLEAN
    BY DEF TypeOK, HasSection
  <2>4. ok => HasSection(b.sec)
    OBVIOUS
  <2>5. ReloadGoes(r, "idle", p)
    BY <1>2 DEF ReloadLoad
  <2>6. p \in ReloadState /\ (p.pc = "swap" => ok) /\ p.built = b
    <3> HIDE DEF ok, b
    <3> QED BY <1>0, <2>2, <2>3 DEF ReloadState
  <2>7. p.pc = "swap" => HasSection(p.built.sec)
    BY <2>4, <2>6
  <2> HIDE DEF p
  <2>8. BuiltUsable'
    BY <1>1, <2>5, <2>6, <2>7
  <2>9. ConfigUsable'
    BY <1>2 DEF ReloadLoad, UsableInv, ConfigUsable, HasSection
  <2> QED BY <2>8, <2>9 DEF UsableInv
<1>3. CASE ReloadSwap(r)
  <2>1. HasSection(reload[r].built.sec)
    BY <1>3 DEF ReloadSwap, ReloadGoes, UsableInv, BuiltUsable
  <2>2. ConfigUsable'
    BY <1>3, <2>1 DEF ReloadSwap, ConfigUsable, HasSection
  <2>3. [reload[r] EXCEPT !.pc = "defer"] \in ReloadState
    BY <1>0 DEF ReloadState
  <2>4. BuiltUsable'
    BY <1>0, <1>1, <1>3, <2>3 DEF ReloadSwap, ReloadState
  <2> QED BY <2>2, <2>4 DEF UsableInv
<1>4. ASSUME NEW p \in ReloadState, NEW from, ReloadGoes(r, from, p),
             p.pc # "swap", UNCHANGED config
      PROVE  UsableInv'
  <2>1. ConfigUsable'
    BY <1>4 DEF UsableInv, ConfigUsable, HasSection
  <2> QED BY <1>1, <1>4, <2>1 DEF UsableInv
<1>5. CASE ReloadDefer(r)
  BY <1>0, <1>4, <1>5 DEF ReloadDefer, ReloadState, TypeOK
<1>6. CASE ReloadGauge(r)
  BY <1>0, <1>4, <1>6 DEF ReloadGauge, ReloadState
<1>7. CASE ReloadStore(r)
  BY <1>0, <1>4, <1>7 DEF ReloadStore, ReloadState
<1>8. CASE ReloadReply(r)
  BY <1>0, <1>4, <1>8 DEF ReloadReply, ReloadState
<1> QED BY <1>2, <1>3, <1>5, <1>6, <1>7, <1>8 DEF ReloadStep

LEMMA UsableStep == TypeOK /\ UsableInv /\ [Next]_vars => UsableInv'
<1> SUFFICES ASSUME TypeOK, UsableInv, [Next]_vars PROVE UsableInv'
  OBVIOUS
<1>1. ASSUME NEW r \in Reloaders, ReloadStep(r) PROVE UsableInv'
  BY <1>1, UsableReload
<1>2. CASE UNCHANGED <<config, reload>>
  BY <1>2 DEF UsableInv, ConfigUsable, BuiltUsable, HasSection
<1>3. ASSUME NEW p \in Probes, ProbeStep(p) PROVE UNCHANGED <<config, reload>>
  BY <1>3 DEF ProbeStep, ProbeBegin, ProbeGetConfig, ProbeSplit, ProbeCheck,
              ProbePlain, ProbeRegister, ProbeRegisterFails, ProbeOpen
<1>4. Edit => UNCHANGED <<config, reload>>
  BY DEF Edit
<1> QED BY <1>1, <1>2, <1>3, <1>4 DEF Next, vars

\* Whatever is written to the file and however reloads overlap, the server
\* never runs without a section (the test of line 181 before the swap of 185).
THEOREM ConfigUsableHolds == Spec => []ConfigUsable
<1>1. Init => UsableInv
  <2> SUFFICES ASSUME Init PROVE UsableInv
    OBVIOUS
  <2>1. HasSection(Valid(file.sec)) /\ config.sec = Valid(file.sec)
    BY DEF Init
  <2>2. BuiltUsable
    BY DEF Init, BuiltUsable
  <2> QED BY <2>1, <2>2 DEF UsableInv, ConfigUsable
<1>2. UsableInv => ConfigUsable
  BY DEF UsableInv
<1> QED BY <1>1, <1>2, TypeCorrect, UsableStep, PTL DEF Spec

-----------------------------------------------------------------------------
(* The sections of a configuration *)

\* c is of a version up to the one on disk, and if of that one, its good sections.
OfFile(c) ==
  /\ c.version <= file.version
  /\ c.version = file.version =>
       \A s \in Sections :
         c.sec[s] = IF file.sec[s] \in Usable THEN file.sec[s] ELSE "absent"

\* GoodSectionsInForce is not inductive: an edit may only bring a version that
\* nobody has, and what a reload has built is installed later.
AllOfFile ==
  /\ OfFile(config)
  /\ \A r \in Reloaders : OfFile(reload[r].built)
  /\ \A p \in Probes : OfFile(probe[p].cfg)

\* After a change of the file, everything is of an earlier version.
LEMMA OfFileEdit ==
  ASSUME TypeOK, Edit, NEW c \in Parsed, OfFile(c)
  PROVE  OfFile(c)'
<1>1. file'.version = file.version + 1
  BY DEF Edit
<1>2. c.version \in Int /\ file.version \in Int
  BY EditsAssumption DEF TypeOK, Parsed, Versions
<1> QED BY <1>1, <1>2 DEF OfFile

\* A reload builds the good sections of the file it reads, and installs them as
\* they are, however late.
LEMMA OfFileReload ==
  ASSUME TypeOK, AllOfFile, NEW r \in Reloaders, ReloadStep(r)
  PROVE  AllOfFile'
<1>0. reload[r] \in ReloadState /\ reload \in [Reloaders -> ReloadState]
  BY DEF TypeOK
<1>1. UNCHANGED <<file, probe>>
  BY DEF ReloadStep, ReloadLoad, ReloadSwap, ReloadDefer, ReloadGauge, ReloadStore, ReloadReply
<1>2. \A c : OfFile(c)' <=> OfFile(c)
  BY <1>1 DEF OfFile
<1>3. config' = config \/ config' = reload[r].built
  BY DEF ReloadStep, ReloadLoad, ReloadSwap, ReloadDefer, ReloadGauge, ReloadStore, ReloadReply
<1>4. ASSUME NEW u \in Reloaders, u # r PROVE reload'[u] = reload[u]
  BY <1>0, <1>4 DEF ReloadStep, ReloadLoad, ReloadSwap, ReloadDefer, ReloadGauge,
                    ReloadStore, ReloadReply, ReloadGoes
<1>5. OfFile(reload'[r].built)
  <2>1. ASSUME NEW q, NEW from, ReloadGoes(r, from, q) PROVE reload'[r] = q
    BY <1>0, <2>1 DEF ReloadGoes
  <2>2. CASE ReloadLoad(r)
    <3> DEFINE b == [version |-> file.version, sec |-> Valid(file.sec)]
               ok == file.loads /\ HasSection(Valid(file.sec))
               q == [reload[r] EXCEPT !.pc = IF ok THEN "swap" ELSE "defer",
                                      !.built = b, !.failed = ~ok, !.reply = "none"]
    <3>1. reload'[r] = q
      BY <2>1, <2>2 DEF ReloadLoad
    <3>2. q.built = b
      <4> HIDE DEF b, ok
      <4> QED BY <1>0 DEF ReloadState
    <3>3. b.version = file.version /\ b.sec = Valid(file.sec) /\ file.version \in Int
      BY EditsAssumption DEF TypeOK, Versions
    <3> HIDE DEF b, q
    <3> QED BY <3>1, <3>2, <3>3 DEF OfFile, Valid
  <2>3. CASE ~ReloadLoad(r)
    <3>1. reload'[r].built = reload[r].built
      BY <1>0, <2>1, <2>3 DEF ReloadStep, ReloadSwap, ReloadDefer, ReloadGauge,
                              ReloadStore, ReloadReply, ReloadState
    <3> QED BY <3>1 DEF AllOfFile
  <2> QED BY <2>2, <2>3
<1> QED BY <1>1, <1>2, <1>3, <1>4, <1>5 DEF AllOfFile

\* A request takes what is in force, once.
LEMMA OfFileProbe ==
  ASSUME TypeOK, AllOfFile, NEW p \in Probes, ProbeStep(p)
  PROVE  AllOfFile'
<1>0. probe[p] \in ProbeState /\ probe \in [Probes -> ProbeState]
  BY DEF TypeOK
<1>1. UNCHANGED <<file, config, reload>>
  BY DEF ProbeStep, ProbeBegin, ProbeGetConfig, ProbeSplit, ProbeCheck,
         ProbePlain, ProbeRegister, ProbeRegisterFails, ProbeOpen
<1>2. \A c : OfFile(c)' <=> OfFile(c)
  BY <1>1 DEF OfFile
<1>3. ASSUME NEW q, NEW from, ProbeGoes(p, from, q)
      PROVE  probe'[p] = q /\ \A u \in Probes : u # p => probe'[u] = probe[u]
  BY <1>0, <1>3 DEF ProbeGoes
<1>4. \A u \in Probes : u # p => probe'[u] = probe[u]
  BY <1>3 DEF ProbeStep, ProbeBegin, ProbeGetConfig, ProbeSplit, ProbeCheck,
              ProbePlain, ProbeRegister, ProbeRegisterFails, ProbeOpen
<1>5. FormError(p).cfg = probe[p].cfg
  BY <1>0 DEF Ends, FormError, ProbeState
<1> SUFFICES probe'[p].cfg = probe[p].cfg \/ probe'[p].cfg = config
  BY <1>1, <1>2, <1>4 DEF AllOfFile
<1>6. CASE ProbeGetConfig(p)
  <2> DEFINE q == [probe[p] EXCEPT
                    !.cfg = config,
                    !.pc = IF probe[p].target \in {"good", "bad"} THEN "split" ELSE "tls"]
             u == [Ends(p, "refused") EXCEPT !.cfg = config]
  <2>1. probe'[p] = q \/ probe'[p] = u
    BY <1>3, <1>6 DEF ProbeGetConfig
  <2>2. q.cfg = config
    BY <1>0 DEF ProbeState
  <2>3. u.cfg = config
    BY <1>0 DEF Ends, ProbeState
  <2> HIDE DEF q, u
  <2>4. probe'[p].cfg = config
    BY <2>1, <2>2, <2>3
  <2> QED BY <2>4
<1>7. CASE ~ProbeGetConfig(p)
  <2>1. CASE ProbeOpen(p)
    <3> DEFINE t == IF probe[p].name = NULL THEN NULL ELSE registry[probe[p].name]
    <3>1. probe'[p] = [Ends(p, "open") EXCEPT !.tls = t]
      BY <1>3, <2>1 DEF ProbeOpen
    <3> HIDE DEF t
    <3>2. probe'[p].cfg = probe[p].cfg
      BY <1>0, <3>1 DEF Ends, ProbeState
    <3> QED BY <3>2
  <2>2. CASE ProbeCheck(p) \/ ProbeRegisterFails(p)
    BY <1>0, <1>3, <1>5, <2>2 DEF ProbeCheck, ProbeRegisterFails, ProbeState
  <2>3. CASE ProbeSplit(p) \/ ProbePlain(p)
    BY <1>0, <1>3, <2>3 DEF ProbeSplit, ProbePlain, ProbeState
  <2>4. CASE ProbeRegister(p)
    <3>1. probe'[p] = [probe[p] EXCEPT !.pc = "open", !.name = probe[p].section]
      BY <1>3, <2>4 DEF ProbeRegister
    <3>2. probe'[p].cfg = probe[p].cfg
      BY <1>0, <3>1 DEF ProbeState
    <3> QED BY <3>2
  <2>5. ASSUME NEW handler \in {"metrics", "probe"}, NEW section \in Sections,
               NEW target \in Targets, ProbeBegin(p, handler, section, target)
        PROVE  probe'[p].cfg = probe[p].cfg
    <3>1. probe'[p] = [probe[p] EXCEPT !.pc = "get", !.handler = handler, !.section = section,
                                       !.target = target, !.name = NULL,
                                       !.outcome = "none", !.tls = NULL]
      BY <1>3, <2>5 DEF ProbeBegin
    <3> QED BY <1>0, <3>1 DEF ProbeState
  <2> QED BY <1>7, <2>1, <2>2, <2>3, <2>4, <2>5 DEF ProbeStep
<1> QED BY <1>6, <1>7

LEMMA OfFileStep == TypeOK /\ AllOfFile /\ [Next]_vars => AllOfFile'
<1> SUFFICES ASSUME TypeOK, AllOfFile, [Next]_vars PROVE AllOfFile'
  OBVIOUS
<1>1. ASSUME NEW r \in Reloaders, ReloadStep(r) PROVE AllOfFile'
  BY <1>1, OfFileReload
<1>2. ASSUME NEW p \in Probes, ProbeStep(p) PROVE AllOfFile'
  BY <1>2, OfFileProbe
<1>3. CASE Edit
  <2>1. UNCHANGED <<config, reload, probe>>
    BY <1>3 DEF Edit
  <2>2. /\ config \in Parsed /\ \A r \in Reloaders : reload[r].built \in Parsed
        /\ \A p \in Probes : probe[p].cfg \in Parsed
    BY DEF TypeOK, ReloadState, ProbeState
  <2>3. \A c \in Parsed : OfFile(c) => OfFile(c)'
    BY <1>3, OfFileEdit
  <2> QED BY <2>1, <2>2, <2>3 DEF AllOfFile
<1>4. CASE UNCHANGED vars
  BY <1>4 DEF vars, AllOfFile, OfFile
<1> QED BY <1>1, <1>2, <1>3, <1>4 DEF Next

\* However reloads, requests and changes of the file overlap: a configuration of
\* the version on disk, in force or in use, has exactly its good sections
\* (lines 157 to 185).
THEOREM GoodSectionsInForceHolds == Spec => []GoodSectionsInForce
<1>1. Init => AllOfFile
  <2> SUFFICES ASSUME Init PROVE AllOfFile
    OBVIOUS
  <2>1. config = [version |-> 0, sec |-> Valid(file.sec)] /\ file.version = 0
    BY DEF Init
  <2>2. OfFile(config)
    BY <2>1 DEF OfFile, Valid
  <2>3. /\ \A r \in Reloaders : reload[r].built = config
        /\ \A p \in Probes : probe[p].cfg = config
    BY DEF Init
  <2> QED BY <2>2, <2>3 DEF AllOfFile
<1>2. AllOfFile => GoodSectionsInForce
  BY DEF AllOfFile, OfFile, GoodSectionsInForce
<1> QED BY <1>1, <1>2, TypeCorrect, OfFileStep, PTL DEF Spec

-----------------------------------------------------------------------------
(* The TLS registry *)

\* What is registered under a name is the settings of the section of that
\* name, and a request that is about to open its pool finds its name there.
RegistryOwn ==
  \A s \in Sections : registry[s] # NULL => registry[s].section = s

NameRight(p) ==
  IF Found(p) = "custom"
  THEN probe[p].name = probe[p].section /\ registry[probe[p].section] # NULL
  ELSE probe[p].name = NULL

OpenRight(p) ==
  IF Found(p) = "custom"
  THEN probe[p].tls # NULL /\ probe[p].tls.section = probe[p].section
  ELSE probe[p].tls = NULL

ProbeInv(p) ==
  /\ probe[p].pc # "idle" => probe[p].outcome = "none"
  /\ probe[p].pc \in {"get", "split", "check", "tls"} => probe[p].name = NULL
  /\ probe[p].pc = "open" => NameRight(p)
  /\ probe[p].outcome = "open" => OpenRight(p)

RegistryInv == RegistryOwn /\ \A p \in Probes : ProbeInv(p)

\* A step of one request leaves the others' part of the invariant alone, as
\* long as nothing is taken out of the registry.
LEMMA OthersKept ==
  ASSUME TypeOK, RegistryInv, NEW p \in Probes, NEW q, NEW from,
         ProbeGoes(p, from, q), ProbeInv(p)', RegistryOwn',
         \A s \in Sections : registry[s] # NULL => registry'[s] # NULL
  PROVE  RegistryInv'
<1> SUFFICES ASSUME NEW u \in Probes, u # p PROVE ProbeInv(u)'
  BY DEF RegistryInv
<1>1. probe'[u] = probe[u]
  BY DEF ProbeGoes, TypeOK
<1>2. ProbeInv(u) /\ probe[u] \in ProbeState
  BY DEF RegistryInv, TypeOK
<1>3. probe[u].section \in Sections
  BY <1>2 DEF ProbeState
<1> QED BY <1>1, <1>2, <1>3 DEF ProbeInv, NameRight, OpenRight, Found

LEMMA RegistryProbe ==
  ASSUME TypeOK, RegistryInv, NEW p \in Probes, ProbeStep(p)
  PROVE  RegistryInv'
<1>0. /\ probe[p] \in ProbeState /\ probe \in [Probes -> ProbeState]
      /\ ProbeInv(p) /\ RegistryOwn
      /\ registry \in [Sections -> TLS \cup {NULL}]
  BY DEF TypeOK, RegistryInv
<1>1. probe[p].section \in Sections
  BY <1>0 DEF ProbeState
<1>2. ASSUME NEW q, NEW from, ProbeGoes(p, from, q), ProbeInv(p)', UNCHANGED registry
      PROVE  RegistryInv'
  <2>1. RegistryOwn'
    BY <1>0, <1>2 DEF RegistryOwn
  <2> QED BY <1>2, <2>1, OthersKept
<1>3. ASSUME NEW q, NEW from, ProbeGoes(p, from, q) PROVE probe'[p] = q
  BY <1>0, <1>3 DEF ProbeGoes
<1>4. ASSUME NEW handler \in {"metrics", "probe"}, NEW section \in Sections,
             NEW target \in Targets, ProbeBegin(p, handler, section, target)
      PROVE  RegistryInv'
  <2>1. ProbeInv(p)'
    BY ZenonT(40), <1>0, <1>3, <1>4 DEF ProbeBegin, ProbeInv, ProbeState
  <2> QED BY <1>2, <1>4, <2>1 DEF ProbeBegin
<1>5. ASSUME NEW outcome \in {"refused", "down"}, NEW from,
             ProbeGoes(p, from, Ends(p, outcome)), UNCHANGED registry
      PROVE  RegistryInv'
  <2>1. ProbeInv(p)'
    BY ZenonT(40), <1>0, <1>3, <1>5 DEF Ends, ProbeInv, ProbeState
  <2> QED BY <1>2, <1>5, <2>1
<1>6. CASE ProbeGetConfig(p)
  <2>1. PICK q : ProbeGoes(p, "get", q)
    BY <1>6 DEF ProbeGetConfig
  <2>2. ProbeInv(p)'
    BY <1>0, <1>3, <1>6 DEF ProbeGetConfig, Ends, ProbeInv, ProbeState, ProbeGoes
  <2> QED BY <1>2, <1>6, <2>1, <2>2 DEF ProbeGetConfig
<1>7. CASE ProbeSplit(p)
  <2>1. ProbeInv(p)'
    BY <1>0, <1>3, <1>7 DEF ProbeSplit, ProbeInv, ProbeState, ProbeGoes
  <2> QED BY <1>2, <1>7, <2>1 DEF ProbeSplit
<1>8. CASE ProbeCheck(p)
  <2>1. CASE pkgErr
    BY <1>5, <1>8, <2>1 DEF ProbeCheck, FormError
  <2>2. CASE ~pkgErr
    <3>1. ProbeGoes(p, "check", [probe[p] EXCEPT !.pc = "tls"])
      BY <1>8, <2>2 DEF ProbeCheck
    <3>2. ProbeInv(p)'
      BY <1>0, <1>3, <3>1 DEF ProbeInv, ProbeState, ProbeGoes
    <3> QED BY <1>2, <1>8, <3>1, <3>2 DEF ProbeCheck
  <2> QED BY <2>1, <2>2
<1>9. CASE ProbePlain(p)
  <2>1. ProbeInv(p)'
    BY <1>0, <1>3, <1>9 DEF ProbePlain, ProbeInv, ProbeState, ProbeGoes, NameRight, Found
  <2> QED BY <1>2, <1>9, <2>1 DEF ProbePlain
<1>10. CASE ProbeRegister(p)
  <2> DEFINE t == [section |-> probe[p].section, version |-> probe[p].cfg.version]
  <2>1. registry' = [registry EXCEPT ![probe[p].section] = t]
    BY <1>10 DEF ProbeRegister
  <2>2. t # NULL /\ t.section = probe[p].section
    <3>1. probe[p].cfg.version \in Nat
      BY <1>0, EditsAssumption DEF ProbeState, Parsed, Versions
    <3> QED BY <1>1, <3>1, NullAssumption
  <2> HIDE DEF t
  <2>3. \A s \in Sections : registry[s] # NULL => registry'[s] # NULL
    BY <1>0, <1>1, <2>1, <2>2
  <2>4. RegistryOwn'
    BY <1>0, <1>1, <2>1, <2>2 DEF RegistryOwn
  <2>5. registry'[probe[p].section] # NULL
    BY <1>0, <1>1, <2>1, <2>2
  <2>6. ProbeGoes(p, "tls",
                  [probe[p] EXCEPT !.pc = "open", !.name = probe[p].section])
        /\ Found(p) = "custom"
    BY <1>10 DEF ProbeRegister
  <2>7. ProbeInv(p)'
    BY <1>0, <1>3, <2>5, <2>6 DEF ProbeInv, ProbeState, ProbeGoes, NameRight, Found
  <2> QED BY <2>3, <2>4, <2>6, <2>7, OthersKept
<1>11. CASE ProbeRegisterFails(p)
  BY <1>5, <1>11 DEF ProbeRegisterFails, FormError
<1>12. CASE ProbeOpen(p)
  <2> DEFINE t == IF probe[p].name = NULL THEN NULL ELSE registry[probe[p].name]
  <2>1. NameRight(p)
    BY <1>0, <1>12 DEF ProbeOpen, ProbeGoes, ProbeInv
  <2>2. IF Found(p) = "custom" THEN t # NULL /\ t.section = probe[p].section
                               ELSE t = NULL
    BY <1>0, <1>1, <2>1, SectionsAssumption DEF NameRight, RegistryOwn
  <2>3. ProbeGoes(p, "open", [Ends(p, "open") EXCEPT !.tls = t])
    BY <1>12 DEF ProbeOpen
  <2> HIDE DEF t
  <2>4. /\ probe'[p].tls = t /\ probe'[p].pc = "idle"
        /\ probe'[p].section = probe[p].section /\ probe'[p].cfg = probe[p].cfg
    BY <1>0, <1>3, <2>3 DEF Ends, ProbeState
  <2>5. ProbeInv(p)'
    BY <2>2, <2>4 DEF ProbeInv, OpenRight, Found
  <2> QED BY <1>2, <1>12, <2>3, <2>5 DEF ProbeOpen
<1> QED BY <1>4, <1>6, <1>7, <1>8, <1>9, <1>10, <1>11, <1>12 DEF ProbeStep

LEMMA RegistryStep == TypeOK /\ RegistryInv /\ [Next]_vars => RegistryInv'
<1> SUFFICES ASSUME TypeOK, RegistryInv, [Next]_vars PROVE RegistryInv'
  OBVIOUS
<1>1. ASSUME NEW p \in Probes, ProbeStep(p) PROVE RegistryInv'
  BY <1>1, RegistryProbe
<1>2. CASE UNCHANGED <<registry, probe>>
  BY <1>2 DEF RegistryInv, RegistryOwn, ProbeInv, NameRight, OpenRight, Found
<1>3. ASSUME NEW r \in Reloaders, ReloadStep(r) PROVE UNCHANGED <<registry, probe>>
  BY <1>3 DEF ReloadStep, ReloadLoad, ReloadSwap, ReloadDefer, ReloadGauge,
              ReloadStore, ReloadReply
<1>4. Edit => UNCHANGED <<registry, probe>>
  BY DEF Edit
<1> QED BY <1>1, <1>2, <1>3, <1>4 DEF Next, vars

LEMMA RegistryInit == Init => RegistryInv
<1> SUFFICES ASSUME Init PROVE RegistryInv
  OBVIOUS
<1>1. RegistryOwn
  BY DEF Init, RegistryOwn
<1>2. ASSUME NEW p \in Probes
      PROVE  probe[p].pc = "idle" /\ probe[p].outcome = "none"
  BY DEF Init
<1> QED BY <1>1, <1>2 DEF RegistryInv, ProbeInv

\* However requests and reloads interleave between FormDSN and sql.Open, no
\* pool is opened with the TLS settings of another section (CHANGELOG.md:23).
THEOREM TlsOfItsSectionHolds == Spec => []TlsOfItsSection
<1>1. RegistryInv => TlsOfItsSection
  BY DEF RegistryInv, ProbeInv, OpenRight, TlsOfItsSection
<1> QED BY <1>1, RegistryInit, TypeCorrect, RegistryStep, PTL DEF Spec

-----------------------------------------------------------------------------
(* One reload at a time *)

OneReloader == \A r, u \in Reloaders : r = u

\* ReplyTruthful is not inductive: the handler answers from the variable of
\* main, which nobody else writes between its assignment and its test.
SoloReload ==
  /\ ReplyTruthful
  /\ \A r \in Reloaders : reload[r].pc = "reply" => mainErr = reload[r].failed

\* A step of the one reload keeps its variable of main to itself.
LEMMA SoloReloadReload ==
  ASSUME OneReloader, TypeOK, SoloReload, NEW r \in Reloaders, ReloadStep(r)
  PROVE  SoloReload'
<1>0. reload[r] \in ReloadState /\ reload \in [Reloaders -> ReloadState]
  BY DEF TypeOK
<1>1. \A u \in Reloaders : u = r
  BY DEF OneReloader
<1>2. ASSUME NEW p, NEW from, ReloadGoes(r, from, p)
      PROVE  reload'[r] = p /\ reload[r].pc = from
  BY <1>0, <1>2 DEF ReloadGoes
<1>3. ASSUME reload'[r].reply = "ok" => ~reload'[r].failed,
             reload'[r].reply = "empty" => reload'[r].failed,
             reload'[r].pc = "reply" => mainErr' = reload'[r].failed
      PROVE  SoloReload'
  BY <1>1, <1>3 DEF SoloReload, ReplyTruthful
<1>4. /\ reload[r].reply = "ok" => ~reload[r].failed
      /\ reload[r].reply = "empty" => reload[r].failed
      /\ reload[r].pc = "reply" => mainErr = reload[r].failed
  BY DEF SoloReload, ReplyTruthful
<1>5. CASE ReloadLoad(r)
  <2> DEFINE ok == file.loads /\ HasSection(Valid(file.sec))
             b  == [version |-> file.version, sec |-> Valid(file.sec)]
             p  == [reload[r] EXCEPT !.pc = IF ok THEN "swap" ELSE "defer",
                                     !.built = b, !.failed = ~ok, !.reply = "none"]
  <2>1. reload'[r] = p
    BY <1>2, <1>5 DEF ReloadLoad
  <2>2. ok \in BOOLEAN
    BY DEF TypeOK, HasSection
  <2> HIDE DEF ok, b
  <2>3. p.pc = (IF ok THEN "swap" ELSE "defer") /\ p.failed = ~ok /\ p.reply = "none"
    BY <1>0 DEF ReloadState
  <2> HIDE DEF p
  <2> QED BY <1>3, <2>1, <2>2, <2>3
<1>6. CASE ReloadSwap(r)
  <2>1. reload'[r] = [reload[r] EXCEPT !.pc = "defer"]
    BY <1>2, <1>6 DEF ReloadSwap
  <2> QED BY <1>0, <1>3, <1>4, <2>1 DEF ReloadState
<1>7. CASE ReloadDefer(r)
  <2>1. /\ reload'[r] = [reload[r] EXCEPT !.pc = "gauge", !.seen = pkgErr]
        /\ reload[r].pc = "defer" /\ config' = config
    BY <1>2, <1>7 DEF ReloadDefer
  <2> QED BY <1>0, <1>3, <1>4, <2>1 DEF ReloadState
<1>8. CASE ReloadGauge(r)
  <2>1. /\ reload'[r] = [reload[r] EXCEPT !.pc = "store"]
        /\ reload[r].pc = "gauge" /\ config' = config
    BY <1>2, <1>8 DEF ReloadGauge
  <2> QED BY <1>0, <1>3, <1>4, <2>1 DEF ReloadState
<1>9. CASE ReloadStore(r)
  <2>1. /\ reload'[r] = [reload[r] EXCEPT !.pc = "reply"]
        /\ reload[r].pc = "store" /\ config' = config /\ mainErr' = reload[r].failed
    BY <1>2, <1>9 DEF ReloadStore
  <2> QED BY <1>0, <1>3, <1>4, <2>1 DEF ReloadState
<1>10. CASE ReloadReply(r)
  <2>1. /\ reload'[r] = [reload[r] EXCEPT !.pc = "idle",
                                           !.reply = IF mainErr THEN "empty" ELSE "ok"]
        /\ reload[r].pc = "reply" /\ config' = config
    BY <1>2, <1>10 DEF ReloadReply
  <2>2. mainErr = reload[r].failed
    BY <1>4, <2>1
  <2> QED BY <1>0, <1>3, <2>1, <2>2 DEF ReloadState
<1> QED BY <1>5, <1>6, <1>7, <1>8, <1>9, <1>10 DEF ReloadStep

\* ... and no request or edit writes it.
LEMMA SoloReloadStep ==
  ASSUME OneReloader
  PROVE  TypeOK /\ SoloReload /\ [Next]_vars => SoloReload'
<1> SUFFICES ASSUME TypeOK, SoloReload, [Next]_vars PROVE SoloReload'
  OBVIOUS
<1>1. ASSUME NEW r \in Reloaders, ReloadStep(r) PROVE SoloReload'
  BY <1>1, SoloReloadReload
<1>2. CASE UNCHANGED <<config, mainErr, reload>>
  BY <1>2 DEF SoloReload, ReplyTruthful
<1>3. ASSUME NEW p \in Probes, ProbeStep(p) PROVE UNCHANGED <<config, mainErr, reload>>
  BY <1>3 DEF ProbeStep, ProbeBegin, ProbeGetConfig, ProbeSplit, ProbeCheck,
              ProbePlain, ProbeRegister, ProbeRegisterFails, ProbeOpen
<1>4. Edit => UNCHANGED <<config, mainErr, reload>>
  BY DEF Edit
<1> QED BY <1>1, <1>2, <1>3, <1>4 DEF Next, vars

\* No reload is under way at the beginning.
LEMMA SoloReloadInit == Init => SoloReload
BY DEF Init, SoloReload, ReplyTruthful

\* As long as reloads do not overlap, "ok" is the answer to those that
\* succeeded and to no other, whatever requests and edits do meanwhile
\* (mysqld_exporter.go:353).
THEOREM ReplyTruthfulHolds ==
  ASSUME OneReloader
  PROVE  Spec => []ReplyTruthful
<1>1. TypeOK /\ SoloReload /\ [Next]_vars => SoloReload'
  BY SoloReloadStep
<1>2. SoloReload => ReplyTruthful
  BY DEF SoloReload
<1> QED BY <1>1, <1>2, SoloReloadInit, TypeCorrect, PTL DEF Spec

-----------------------------------------------------------------------------
(* One request at a time *)

OneProbe == \A p, u \in Probes : p = u

Settings(p) == [section |-> probe[p].section, version |-> probe[p].cfg.version]

Judged(p) ==
  /\ probe[p].target = "bad" => probe[p].outcome # "open"
  /\ probe[p].target # "bad" =>
       /\ probe[p].outcome = "refused" => Found(p) \in {"absent", "custom"}
       /\ probe[p].outcome = "down" => Found(p) = "custom"

\* Between SplitHostPort and the test of its error, and between FormDSN and
\* sql.Open, a request alone finds what it left there.
SoloProbe(p) ==
  /\ Judged(p)
  /\ probe[p].pc = "check" => pkgErr = (probe[p].target = "bad")
  /\ probe[p].pc \in {"tls", "open"} => probe[p].target # "bad"
  /\ probe[p].pc = "open" /\ Found(p) = "custom" =>
       registry[probe[p].section] = Settings(p)
  /\ probe[p].outcome = "open" /\ Found(p) = "custom" => probe[p].tls = Settings(p)

SoloProbes == \A p \in Probes : SoloProbe(p)

\* A step of the one request keeps its error and its TLS settings to itself.
LEMMA SoloProbeProbe ==
  ASSUME OneProbe, TypeOK, RegistryInv, SoloProbes, NEW p \in Probes, ProbeStep(p)
  PROVE  SoloProbes'
<1>0. /\ probe[p] \in ProbeState /\ probe \in [Probes -> ProbeState]
      /\ ProbeInv(p) /\ SoloProbe(p)
      /\ registry \in [Sections -> TLS \cup {NULL}]
  BY DEF TypeOK, RegistryInv, SoloProbes
<1>1. SoloProbe(p)' => SoloProbes'
  BY DEF OneProbe, SoloProbes
<1>2. ASSUME NEW q, NEW from, ProbeGoes(p, from, q)
      PROVE  probe'[p] = q /\ probe[p].pc = from
  BY <1>0, <1>2 DEF ProbeGoes
<1>3. probe[p].section \in Sections
  BY <1>0 DEF ProbeState
<1>4. ASSUME NEW handler \in {"metrics", "probe"}, NEW section \in Sections,
             NEW target \in Targets, ProbeBegin(p, handler, section, target)
      PROVE  SoloProbe(p)'
  <2>1. probe'[p] = [probe[p] EXCEPT
          !.pc = "get", !.handler = handler, !.section = section,
          !.target = target, !.name = NULL, !.outcome = "none", !.tls = NULL]
    BY <1>2, <1>4 DEF ProbeBegin
  <2>2. probe'[p].pc = "get" /\ probe'[p].outcome = "none"
    BY <1>0, <2>1 DEF ProbeState
  <2> QED BY <2>2 DEF SoloProbe, Judged
<1>5. CASE ProbeGetConfig(p)
  <2>1. CASE probe[p].handler = "probe" /\ config.sec[probe[p].section] = "absent"
    <3>1. probe'[p] = [Ends(p, "refused") EXCEPT !.cfg = config]
      BY <1>2, <1>5, <2>1 DEF ProbeGetConfig
    <3>2. /\ probe'[p].pc = "idle" /\ probe'[p].outcome = "refused"
          /\ probe'[p].cfg = config /\ probe'[p].section = probe[p].section
      BY <1>0, <3>1 DEF Ends, ProbeState
    <3> QED BY <1>1, <2>1, <3>2 DEF SoloProbe, Judged, Found
  <2>2. CASE ~(probe[p].handler = "probe" /\ config.sec[probe[p].section] = "absent")
    <3>1. /\ probe'[p] = [probe[p] EXCEPT
                !.cfg = config,
                !.pc = IF probe[p].target \in {"good", "bad"} THEN "split" ELSE "tls"]
          /\ probe[p].pc = "get"
      BY <1>2, <1>5, <2>2 DEF ProbeGetConfig
    <3>2. /\ probe'[p].pc = IF probe[p].target \in {"good", "bad"} THEN "split" ELSE "tls"
          /\ probe'[p].outcome = "none" /\ probe'[p].target = probe[p].target
      BY <1>0, <3>1 DEF ProbeInv, ProbeState
    <3> QED BY <1>1, <3>2 DEF SoloProbe, Judged
  <2> QED BY <2>1, <2>2
<1>6. CASE ProbeSplit(p)
  <2>1. /\ probe'[p] = [probe[p] EXCEPT !.pc = "check"] /\ probe[p].pc = "split"
        /\ pkgErr' = (probe[p].target = "bad")
    BY <1>2, <1>6 DEF ProbeSplit
  <2>2. /\ probe'[p].pc = "check" /\ probe'[p].outcome = "none"
        /\ probe'[p].target = probe[p].target
    BY <1>0, <2>1 DEF ProbeInv, ProbeState
  <2> QED BY <1>1, <2>1, <2>2 DEF SoloProbe, Judged
<1>7. CASE ProbeCheck(p)
  <2>0. probe[p].pc = "check" /\ pkgErr = (probe[p].target = "bad")
    BY <1>0, <1>2, <1>7 DEF ProbeCheck, SoloProbe
  <2>1. CASE pkgErr
    <3>1. probe'[p] = FormError(p)
      BY <1>2, <1>7, <2>1 DEF ProbeCheck
    <3>2. /\ probe'[p].pc = "idle" /\ probe'[p].outcome \in {"refused", "down"}
          /\ probe'[p].target = "bad"
      BY <1>0, <2>0, <2>1, <3>1 DEF FormError, Ends, ProbeState
    <3> QED BY <1>1, <3>2 DEF SoloProbe, Judged
  <2>2. CASE ~pkgErr
    <3>1. probe'[p] = [probe[p] EXCEPT !.pc = "tls"]
      BY <1>2, <1>7, <2>2 DEF ProbeCheck
    <3>2. /\ probe'[p].pc = "tls" /\ probe'[p].outcome = "none"
          /\ probe'[p].target # "bad"
      BY <1>0, <2>0, <2>2, <3>1 DEF ProbeInv, ProbeState
    <3> QED BY <1>1, <3>2 DEF SoloProbe, Judged
  <2> QED BY <2>1, <2>2
<1>8. CASE ProbePlain(p)
  <2>1. /\ probe'[p] = [probe[p] EXCEPT !.pc = "open"] /\ probe[p].pc = "tls"
        /\ Found(p) # "custom"
    BY <1>2, <1>8 DEF ProbePlain
  <2>2. /\ probe'[p].pc = "open" /\ probe'[p].outcome = "none"
        /\ probe'[p].target # "bad" /\ Found(p)' # "custom"
    BY <1>0, <2>1 DEF ProbeInv, ProbeState, Found, SoloProbe
  <2> QED BY <1>1, <2>2 DEF SoloProbe, Judged
<1>9. CASE ProbeRegister(p)
  <2>1. /\ probe'[p] = [probe[p] EXCEPT !.pc = "open", !.name = probe[p].section]
        /\ probe[p].pc = "tls"
        /\ registry' = [registry EXCEPT ![probe[p].section] = Settings(p)]
    BY <1>2, <1>9 DEF ProbeRegister, Settings
  <2>2. /\ probe'[p].pc = "open" /\ probe'[p].outcome = "none"
        /\ probe'[p].target # "bad" /\ probe'[p].section = probe[p].section
        /\ probe'[p].cfg = probe[p].cfg
    BY <1>0, <2>1 DEF ProbeInv, ProbeState, SoloProbe
  <2>3. Settings(p)' = Settings(p) /\ registry'[probe[p].section] = Settings(p)
    BY <1>0, <1>3, <2>1, <2>2 DEF Settings
  <2> QED BY <1>1, <2>2, <2>3 DEF SoloProbe, Judged
<1>10. CASE ProbeRegisterFails(p)
  <2>1. /\ probe'[p] = FormError(p) /\ probe[p].pc = "tls" /\ Found(p) = "custom"
    BY <1>2, <1>10 DEF ProbeRegisterFails
  <2>2. /\ probe'[p].pc = "idle" /\ probe'[p].outcome \in {"refused", "down"}
        /\ Found(p)' = "custom"
    BY <1>0, <2>1 DEF FormError, Ends, ProbeState, Found
  <2> QED BY <1>1, <2>2 DEF SoloProbe, Judged
<1>11. CASE ProbeOpen(p)
  <2> DEFINE t == IF probe[p].name = NULL THEN NULL ELSE registry[probe[p].name]
  <2>1. probe'[p] = [Ends(p, "open") EXCEPT !.tls = t] /\ probe[p].pc = "open"
    BY <1>2, <1>11 DEF ProbeOpen
  <2>2. Found(p) = "custom" => t = Settings(p)
    <3>1. ASSUME Found(p) = "custom"
          PROVE  /\ probe[p].name = probe[p].section
                 /\ registry[probe[p].section] = Settings(p)
      BY <1>0, <2>1, <3>1 DEF ProbeInv, NameRight, SoloProbe
    <3> QED BY <1>3, <3>1, SectionsAssumption
  <2> HIDE DEF t
  <2>3. /\ probe'[p].pc = "idle" /\ probe'[p].outcome = "open" /\ probe'[p].tls = t
        /\ probe'[p].target = probe[p].target /\ probe[p].target # "bad"
        /\ Found(p)' = Found(p) /\ Settings(p)' = Settings(p)
    BY <1>0, <2>1 DEF Ends, ProbeState, Found, Settings, SoloProbe
  <2> QED BY <1>1, <2>2, <2>3 DEF SoloProbe, Judged
<1> QED BY <1>1, <1>4, <1>5, <1>6, <1>7, <1>8, <1>9, <1>10, <1>11 DEF ProbeStep

\* ... and a reload writes neither of them for it.
LEMMA SoloProbeStep ==
  ASSUME OneProbe
  PROVE  TypeOK /\ RegistryInv /\ SoloProbes /\ [Next]_vars => SoloProbes'
<1> SUFFICES ASSUME TypeOK, RegistryInv, SoloProbes, [Next]_vars PROVE SoloProbes'
  OBVIOUS
<1>1. ASSUME NEW p \in Probes, ProbeStep(p) PROVE SoloProbes'
  BY <1>1, SoloProbeProbe
<1>2. CASE UNCHANGED <<pkgErr, registry, probe>>
  BY <1>2 DEF SoloProbes, SoloProbe, Judged, Found, Settings
<1>3. ASSUME NEW r \in Reloaders, ReloadStep(r) PROVE UNCHANGED <<pkgErr, registry, probe>>
  BY <1>3 DEF ReloadStep, ReloadLoad, ReloadSwap, ReloadDefer, ReloadGauge,
              ReloadStore, ReloadReply
<1>4. Edit => UNCHANGED <<pkgErr, registry, probe>>
  BY DEF Edit
<1> QED BY <1>1, <1>2, <1>3, <1>4 DEF Next, vars

\* No request is under way at the beginning.
LEMMA SoloProbeInit == Init => SoloProbes
<1> SUFFICES ASSUME Init, NEW p \in Probes PROVE SoloProbe(p)
  BY DEF SoloProbes
<1>1. probe[p].pc = "idle" /\ probe[p].outcome = "none"
  BY DEF Init
<1> QED BY <1>1 DEF SoloProbe, Judged

\* As long as requests do not overlap, a target that does not parse opens no
\* pool and one that does is not refused for it, whatever reloads do
\* (config.go:235).
THEOREM TargetJudgedHolds ==
  ASSUME OneProbe
  PROVE  Spec => []TargetJudged
<1>1. TypeOK /\ RegistryInv /\ SoloProbes /\ [Next]_vars => SoloProbes'
  BY SoloProbeStep
<1>2. SoloProbes => TargetJudged
  BY DEF SoloProbes, SoloProbe, Judged, TargetJudged
<1> QED BY <1>1, <1>2, SoloProbeInit, RegistryInit, RegistryStep, TypeCorrect,
           PTL DEF Spec

\* As long as requests do not overlap, the pool is opened with the TLS settings
\* of the configuration that its DSN was formed from, though a reload may
\* replace that configuration in between (config.go:243 and 301).
THEOREM TlsOfItsConfigHolds ==
  ASSUME OneProbe
  PROVE  Spec => []TlsOfItsConfig
<1>1. TypeOK /\ RegistryInv /\ SoloProbes /\ [Next]_vars => SoloProbes'
  BY SoloProbeStep
<1>2. SoloProbes => TlsOfItsConfig
  BY DEF SoloProbes, SoloProbe, Settings, TlsOfItsConfig
<1> QED BY <1>1, <1>2, SoloProbeInit, RegistryInit, RegistryStep, TypeCorrect,
           PTL DEF Spec
=============================================================================
