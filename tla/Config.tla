------------------------------- MODULE Config -------------------------------
(***************************************************************************)
(* The configuration of config/config.go as the HTTP handlers use it: the  *)
(* reload of mysqld_exporter.go:353, and the requests of newHandler and    *)
(* handleProbe from GetConfig to the opening of their connection pool.     *)
(*                                                                         *)
(* Handlers run concurrently.  They share the current configuration (under *)
(* an RWMutex), the TLS registry of the MySQL driver (under its own lock), *)
(* and without any lock two variables called err: the one of package       *)
(* config, which FormDSN assigns and the deferred function of ReloadConfig *)
(* reads, and the one of main, which the reload handler assigns and reads. *)
(*                                                                         *)
(* A section of the file is abstracted to what the code tells apart in it; *)
(* settings are told apart by the version of the file they come from.      *)
(***************************************************************************)
EXTENDS Integers

CONSTANTS
  Reloaders,  \* POST requests to /-/reload served at the same time
  Probes,     \* requests to /metrics and /probe served at the same time
  Sections,   \* names of sections
  Client,     \* the section that /metrics uses; every file has it (117)
  Kinds,      \* kinds of sections that files have
  Targets,    \* kinds of targets that requests name
  MaxEdits,   \* bound on the edits of the file
  NULL        \* no value

\* What a section can be: not there; not mappable to MySqlConfig; rejected by
\* validateConfig; valid, with or without its own TLS settings, or with TLS
\* verification skipped.
AllKinds == {"absent", "unmappable", "invalid", "plain", "custom", "skip"}
Usable   == {"plain", "custom", "skip"}

ASSUME SectionsAssumption == Client \in Sections /\ NULL \notin Sections
ASSUME NullAssumption     == NULL \notin [section : Sections, version : Nat]
ASSUME KindsAssumption    == Kinds \subseteq AllKinds
ASSUME TargetsAssumption  == Targets \subseteq {"none", "unix", "good", "bad"}
ASSUME EditsAssumption    == MaxEdits \in Nat

VARIABLES
  file,      \* the file as it is on disk
  config,    \* ch.Config
  pkgErr,    \* err of package config is not nil
  mainErr,   \* err of main is not nil
  gauge,     \* config_last_reload_successful
  registry,  \* the driver's TLS registry: settings per name
  reload,    \* the calls of the reload handler
  probe      \* the requests for metrics

vars == <<file, config, pkgErr, mainErr, gauge, registry, reload, probe>>

Versions == 0 .. MaxEdits
Parsed   == [version : Versions, sec : [Sections -> Usable \cup {"absent"}]]
TLS      == [section : Sections, version : Versions]

Done == {"refused", "down", "open"}

ReloadState ==
  [pc     : {"idle", "swap", "defer", "gauge", "store", "reply"},
   built  : Parsed,                  \* the local config
   failed : BOOLEAN,                 \* ReloadConfig returns an error
   seen   : BOOLEAN,                 \* err as the deferred function read it
   reply  : {"none", "ok", "empty"}]

ProbeState ==
  [pc      : {"idle", "get", "split", "check", "tls", "open"},
   handler : {"metrics", "probe"},
   section : Sections,               \* authModule
   target  : Targets,
   cfg     : Parsed,                 \* the result of GetConfig
   name    : Sections \cup {NULL},   \* config.TLSConfig, when registered
   outcome : Done \cup {"none"},
   tls     : TLS \cup {NULL}]        \* settings the pool was opened with

TypeOK ==
  /\ file \in [version : Versions, loads : BOOLEAN, sec : [Sections -> AllKinds]]
  /\ config \in Parsed
  /\ pkgErr \in BOOLEAN /\ mainErr \in BOOLEAN /\ gauge \in BOOLEAN
  /\ registry \in [Sections -> TLS \cup {NULL}]
  /\ reload \in [Reloaders -> ReloadState]
  /\ probe \in [Probes -> ProbeState]

\* Files: [client] is always there, from the source in memory (114 to 117).
FileContents == {sec \in [Sections -> Kinds] : sec[Client] # "absent"}

\* Mutant: a section that validateConfig rejects is not skipped.
Valid_All(sec) ==
  [s \in Sections |-> IF sec[s] # "unmappable" THEN sec[s] ELSE "absent"]

\* The loop over the sections, 157 to 179: the others are logged and skipped.
Valid(sec) == [s \in Sections |-> IF sec[s] \in Usable THEN sec[s] ELSE "absent"]
HasSection(sec) == \E s \in Sections : sec[s] # "absent"

\* The server runs once a first ReloadConfig has succeeded (mysqld_exporter.go:318).
Init ==
  /\ file \in {f \in [version : {0}, loads : {TRUE}, sec : FileContents] :
                 HasSection(Valid(f.sec))}
  /\ config = [version |-> 0, sec |-> Valid(file.sec)]
  /\ pkgErr = FALSE
  /\ mainErr = FALSE
  /\ gauge = TRUE
  /\ registry = [s \in Sections |-> NULL]
  /\ reload = [r \in Reloaders |->
                 [pc |-> "idle", built |-> config, failed |-> FALSE,
                  seen |-> FALSE, reply |-> "none"]]
  /\ probe \in [Probes ->
                 {[pc |-> "idle", handler |-> "metrics", section |-> Client,
                   target |-> x, cfg |-> config, name |-> NULL,
                   outcome |-> "none", tls |-> NULL] : x \in Targets}]

\* The administrator changes the file; it may no longer be readable or parse.
Edit ==
  /\ file.version < MaxEdits
  /\ \E loads \in BOOLEAN, sec \in FileContents :
       file' = [version |-> file.version + 1, loads |-> loads, sec |-> sec]
  /\ UNCHANGED <<config, pkgErr, mainErr, gauge, registry, reload, probe>>

-----------------------------------------------------------------------------
(* /-/reload *)

ReloadGoes(r, from, p) ==
  /\ reload[r].pc = from
  /\ reload' = [reload EXCEPT ![r] = p]

\* Mutant: a file without a valid section is installed.
ReloadLoad_Empty(r) ==
  /\ ReloadGoes(r, "idle",
       [reload[r] EXCEPT !.pc = IF file.loads THEN "swap" ELSE "defer",
                         !.built = [version |-> file.version, sec |-> Valid(file.sec)],
                         !.failed = ~file.loads,
                         !.reply = "none"])
  /\ UNCHANGED <<file, config, pkgErr, mainErr, gauge, registry, probe>>

\* Reads the file and builds the configuration, all in local variables.
ReloadLoad(r) ==
  LET ok == file.loads /\ HasSection(Valid(file.sec)) IN
  /\ ReloadGoes(r, "idle",
       [reload[r] EXCEPT !.pc = IF ok THEN "swap" ELSE "defer",
                         !.built = [version |-> file.version, sec |-> Valid(file.sec)],
                         !.failed = ~ok,
                         !.reply = "none"])
  /\ UNCHANGED <<file, config, pkgErr, mainErr, gauge, registry, probe>>

\* Mutant: the map of sections is kept, and those that were built are put into it.
ReloadSwap_Merges(r) ==
  /\ ReloadGoes(r, "swap", [reload[r] EXCEPT !.pc = "defer"])
  /\ config' = [reload[r].built EXCEPT !.sec =
                  [s \in Sections |-> IF @[s] = "absent" THEN config.sec[s] ELSE @[s]]]
  /\ UNCHANGED <<file, pkgErr, mainErr, gauge, registry, probe>>

\* ch.Lock(); ch.Config = config; ch.Unlock()
ReloadSwap(r) ==
  /\ ReloadGoes(r, "swap", [reload[r] EXCEPT !.pc = "defer"])
  /\ config' = reload[r].built
  /\ UNCHANGED <<file, pkgErr, mainErr, gauge, registry, probe>>

\* The deferred function was made before the local err was declared: it reads
\* the variable of the package.
ReloadDefer(r) ==
  /\ ReloadGoes(r, "defer", [reload[r] EXCEPT !.pc = "gauge", !.seen = pkgErr])
  /\ UNCHANGED <<file, config, pkgErr, mainErr, gauge, registry, probe>>

\* configReloadSuccess.Set; the gauge of the time goes with it.
ReloadGauge(r) ==
  /\ ReloadGoes(r, "gauge", [reload[r] EXCEPT !.pc = "store"])
  /\ gauge' = ~reload[r].seen
  /\ UNCHANGED <<file, config, pkgErr, mainErr, registry, probe>>

\* Mutant: err is assigned only when the reload fails.
ReloadStore_OnlyFailure(r) ==
  /\ ReloadGoes(r, "store", [reload[r] EXCEPT !.pc = "reply"])
  /\ mainErr' = (mainErr \/ reload[r].failed)
  /\ UNCHANGED <<file, config, pkgErr, gauge, registry, probe>>

\* err = c.ReloadConfig(...), where err is the variable of main
ReloadStore(r) ==
  /\ ReloadGoes(r, "store", [reload[r] EXCEPT !.pc = "reply"])
  /\ mainErr' = reload[r].failed
  /\ UNCHANGED <<file, config, pkgErr, gauge, registry, probe>>

\* if err != nil { log; return }; w.Write("ok")
ReloadReply(r) ==
  /\ ReloadGoes(r, "reply",
       [reload[r] EXCEPT !.pc = "idle", !.reply = IF mainErr THEN "empty" ELSE "ok"])
  /\ UNCHANGED <<file, config, pkgErr, mainErr, gauge, registry, probe>>

-----------------------------------------------------------------------------
(* /metrics and /probe *)

ProbeGoes(p, from, q) ==
  /\ probe[p].pc = from
  /\ probe' = [probe EXCEPT ![p] = q]

\* A request comes in.  /metrics uses [client] whatever the target.
ProbeBegin(p, handler, section, target) ==
  /\ handler = "metrics" => section = Client
  /\ handler = "probe" => target # "none"     \* else 400: "target is required"
  /\ ProbeGoes(p, "idle",
       [probe[p] EXCEPT !.pc = "get", !.handler = handler, !.section = section,
                        !.target = target, !.name = NULL,
                        !.outcome = "none", !.tls = NULL])
  /\ UNCHANGED <<file, config, pkgErr, mainErr, gauge, registry, reload>>

Ends(p, outcome) == [probe[p] EXCEPT !.pc = "idle", !.outcome = outcome]

\* An error of FormDSN: 400 from handleProbe.  newHandler goes on with the DSN
\* "?", which sql.Open rejects: mysql_up is 0.
FormError(p) == Ends(p, IF probe[p].handler = "probe" THEN "refused" ELSE "down")

\* The section in the configuration the request got.
Found(p) == probe[p].cfg.sec[probe[p].section]

\* c.GetConfig() and the look-up.  A section that is missing ends handleProbe;
\* newHandler goes on with the zero MySqlConfig.
ProbeGetConfig(p) ==
  /\ ProbeGoes(p, "get",
       IF probe[p].handler = "probe" /\ config.sec[probe[p].section] = "absent"
       THEN [Ends(p, "refused") EXCEPT !.cfg = config]
       ELSE [probe[p] EXCEPT
              !.cfg = config,
              !.pc = IF probe[p].target \in {"good", "bad"} THEN "split" ELSE "tls"])
  /\ UNCHANGED <<file, config, pkgErr, mainErr, gauge, registry, reload>>

\* Mutant: err is assigned only when the target does not parse.
ProbeSplit_OnlyFailure(p) ==
  /\ ProbeGoes(p, "split", [probe[p] EXCEPT !.pc = "check"])
  /\ pkgErr' = (pkgErr \/ probe[p].target = "bad")
  /\ UNCHANGED <<file, config, mainErr, gauge, registry, reload>>

\* _, _, err = net.SplitHostPort(target), where err is the package's
ProbeSplit(p) ==
  /\ ProbeGoes(p, "split", [probe[p] EXCEPT !.pc = "check"])
  /\ pkgErr' = (probe[p].target = "bad")
  /\ UNCHANGED <<file, config, mainErr, gauge, registry, reload>>

\* err != nil
ProbeCheck(p) ==
  /\ ProbeGoes(p, "check",
       IF pkgErr THEN FormError(p) ELSE [probe[p] EXCEPT !.pc = "tls"])
  /\ UNCHANGED <<file, config, pkgErr, mainErr, gauge, registry, reload>>

\* No TLS settings of its own: the driver's, or none.
ProbePlain(p) ==
  /\ Found(p) # "custom"
  /\ ProbeGoes(p, "tls", [probe[p] EXCEPT !.pc = "open"])
  /\ UNCHANGED <<file, config, pkgErr, mainErr, gauge, registry, reload>>

\* Mutant: one name for the settings of all sections.
ProbeRegister_SharedName(p) ==
  /\ Found(p) = "custom"
  /\ ProbeGoes(p, "tls", [probe[p] EXCEPT !.pc = "open", !.name = Client])
  /\ registry' = [registry EXCEPT ![Client] =
                    [section |-> probe[p].section, version |-> probe[p].cfg.version]]
  /\ UNCHANGED <<file, config, pkgErr, mainErr, gauge, reload>>

\* Mutant: settings that are registered are not registered again.
ProbeRegister_Once(p) ==
  /\ Found(p) = "custom"
  /\ ProbeGoes(p, "tls", [probe[p] EXCEPT !.pc = "open", !.name = probe[p].section])
  /\ registry' = [registry EXCEPT ![probe[p].section] =
                    IF @ # NULL THEN @
                    ELSE [section |-> probe[p].section,
                          version |-> probe[p].cfg.version]]
  /\ UNCHANGED <<file, config, pkgErr, mainErr, gauge, reload>>

\* CustomizeTLS registers the settings under the name of the section.
ProbeRegister(p) ==
  /\ Found(p) = "custom"
  /\ ProbeGoes(p, "tls", [probe[p] EXCEPT !.pc = "open", !.name = probe[p].section])
  /\ registry' = [registry EXCEPT ![probe[p].section] =
                    [section |-> probe[p].section, version |-> probe[p].cfg.version]]
  /\ UNCHANGED <<file, config, pkgErr, mainErr, gauge, reload>>

\* CustomizeTLS fails: a certificate cannot be read or parsed.
ProbeRegisterFails(p) ==
  /\ Found(p) = "custom"
  /\ ProbeGoes(p, "tls", FormError(p))
  /\ UNCHANGED <<file, config, pkgErr, mainErr, gauge, registry, reload>>

\* sql.Open in newInstance parses the DSN and looks the name up.
ProbeOpen(p) ==
  /\ ProbeGoes(p, "open",
       [Ends(p, "open") EXCEPT
          !.tls = IF probe[p].name = NULL THEN NULL ELSE registry[probe[p].name]])
  /\ UNCHANGED <<file, config, pkgErr, mainErr, gauge, registry, reload>>

-----------------------------------------------------------------------------

ReloadStep(r) ==
  \/ ReloadLoad(r) \/ ReloadSwap(r) \/ ReloadDefer(r)
  \/ ReloadGauge(r) \/ ReloadStore(r) \/ ReloadReply(r)

ProbeStep(p) ==
  \/ \E handler \in {"metrics", "probe"}, section \in Sections, target \in Targets :
       ProbeBegin(p, handler, section, target)
  \/ ProbeGetConfig(p) \/ ProbeSplit(p) \/ ProbeCheck(p)
  \/ ProbePlain(p) \/ ProbeRegister(p) \/ ProbeRegisterFails(p)
  \/ ProbeOpen(p)

Next ==
  \/ Edit
  \/ \E r \in Reloaders : ReloadStep(r)
  \/ \E p \in Probes : ProbeStep(p)

Spec == Init /\ [][Next]_vars
-----------------------------------------------------------------------------
(* Properties that hold whatever runs concurrently *)

\* Whatever the file becomes, the server keeps a configuration with at least
\* one section to serve requests from (lines 157 to 186).
ConfigUsable == HasSection(config.sec)

\* CHANGELOG.md:23, "Fix a race condition due to which targets could use custom
\* CA from different config sections": between the registration and sql.Open no
\* other request can put the settings of its section under this name.
TlsOfItsSection ==
  \A p \in Probes :
    probe[p].outcome = "open" =>
      IF Found(p) = "custom" THEN probe[p].tls # NULL
                                  /\ probe[p].tls.section = probe[p].section
                             ELSE probe[p].tls = NULL

\* A configuration that comes from what is on disk now has the good sections of
\* it, each as it is there, and no other: whether it is in force or a request
\* still uses it, the sections beside a bad one are installed, and one that was
\* removed or spoilt does not live on (lines 157 to 185).
GoodSectionsInForce ==
  \A c \in {config} \cup {probe[p].cfg : p \in Probes} :
    c.version = file.version =>
      \A s \in Sections :
        c.sec[s] = IF file.sec[s] \in Usable THEN file.sec[s] ELSE "absent"

(* A property that holds without overlapping reloads *)

\* "ok" is the answer to the reloads that succeeded and to no other.
ReplyTruthful ==
  \A r \in Reloaders :
    /\ reload[r].reply = "ok" => ~reload[r].failed
    /\ reload[r].reply = "empty" => reload[r].failed

(* Properties that hold without overlapping requests *)

\* A target that does not parse opens no pool, and one that does is not
\* refused on account of another request's (lines 235 to 237).  Other grounds:
\* handleProbe does not find the section, or its TLS files do not load.
TargetJudged ==
  \A p \in Probes :
    /\ probe[p].target = "bad" => probe[p].outcome # "open"
    /\ probe[p].target # "bad" =>
         /\ probe[p].outcome = "refused" => Found(p) \in {"absent", "custom"}
         /\ probe[p].outcome = "down" => Found(p) = "custom"

\* A pool is opened with the TLS settings of the very configuration its DSN
\* was formed from, with reloads between the two.
TlsOfItsConfig ==
  \A p \in Probes :
    probe[p].outcome = "open" /\ Found(p) = "custom" =>
      probe[p].tls = [section |-> probe[p].section, version |-> probe[p].cfg.version]

(* What the source says *)

\* config.go:39, "config loaded successfully": when no reload is in progress
\* the gauge tells how the last one ended.
GaugeTruthful ==
  \A r \in Reloaders :
    reload[r].pc = "idle" /\ reload[r].reply # "none" => gauge = ~reload[r].failed
=============================================================================
