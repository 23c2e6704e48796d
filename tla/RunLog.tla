------------------------------- MODULE RunLog -------------------------------
(***************************************************************************)
(* A run that writes a replayable log (runner.py:                          *)
(* run_underlying_from_csv_with_log and its option and chain forms,        *)
(* runlog.py), and what a replay of the file makes of it                   *)
(* (replay_from_log).                                                      *)
(*                                                                         *)
(* The run reads the rule packs, reads the input, evaluates, reads the     *)
(* input again for its hash, and writes the log over whatever the file     *)
(* held.  Meanwhile and afterwards others may edit the rules, the input    *)
(* and the log, the process may die, and the engine may be replaced by one *)
(* with other indicator versions.                                          *)
(*                                                                         *)
(* A replay changes nothing, so it is no action but the operator           *)
(* ReplayOf, and the invariants say what it returns in every state.        *)
(*                                                                         *)
(* Texts, file contents and event lists are opaque; a hash is the text or  *)
(* content it was taken of.  The outcome of an evaluation is the record of *)
(* all it depends on, so that equal outcomes mean equal decisions.  Paths  *)
(* are left out: they are the same in the run and its log.  The choice of  *)
(* an option contract, before the risk pack is loaded, is part of the read *)
(* of the input.                                                           *)
(***************************************************************************)
EXTENDS Naturals, FiniteSets

CONSTANTS
  Text,        (* Texts of rule files.                                     *)
  Packs,       (* Sets of texts a rules directory may hold.                *)
  Clean,       (* Clean[p]: texts without diagnostics under profile p.     *)
  Serves,      (* Serves[t]: kinds of input the rules of t are for.        *)
  Uses,        (* Uses[t]: indicators t refers to.                         *)
  Indicator,
  Version,     (* Versions of an indicator.                                *)
  Content,     (* Contents of an input file.                               *)
  Events,      (* Event lists, not empty.                                  *)
  ReadAs,      (* ReadAs[c]: the events read from c, or None: rejected.    *)
  KindIn,      (* KindIn[e]: the kind of input e comes from.               *)
  Raising,     (* Event lists whose evaluation raises an EvalError.        *)
  Earlier,     (* What the log file may hold before the run.               *)
  None, Torn,  (* No such file; a file written in part.                    *)
  MaxChanges   (* Bound on what happens outside the run.                   *)

Profile == {"signal", "intent", "risk"}
Kind    == {"underlying", "option", "chain"}

Engine == [Indicator -> Version]

RuleSource == [text: Text, sha: Text]

(* sha is the hash of the second read of the input, rows the row count of  *)
(* the first.  A log without a risk section is replayed as one with an     *)
(* empty risk pack, and one without indicators as one that refers to none. *)
Log ==
  [schema     : {"1.0-b", "older", "unsupported"},
   profile    : Profile \union {None, "unknown"},
   kind       : Kind,
   rules      : SUBSET RuleSource,
   risk       : SUBSET RuleSource,
   sha        : Content,
   rows       : Content,
   events     : Events,
   referenced : SUBSET (Indicator \X Version)]

Outcome ==
  [rules   : SUBSET Text,
   risk    : SUBSET Text,
   profile : Profile,
   events  : Events,
   versions: SUBSET (Indicator \X Version)]

ASSUME DataAssumption ==
  /\ Packs \subseteq SUBSET Text
  /\ Clean \in [Profile -> SUBSET Text]
  /\ Serves \in [Text -> SUBSET Kind]
  /\ Uses \in [Text -> SUBSET Indicator]
  /\ ReadAs \in [Content -> Events \union {None}]
  /\ KindIn \in [Events -> Kind]
  /\ Raising \subseteq Events
  /\ MaxChanges \in Nat

ASSUME EarlierAssumption == Earlier \subseteq Log \union {None, Torn}

ASSUME NoneAssumption ==
  /\ None \notin Events /\ Torn # None
  /\ {None, Torn} \intersect (Content \union Log \union Outcome) = {}

VARIABLES
  request,     (* The run's arguments.                                     *)
  job,         (* Where the run is.                                        *)
  pins,        (* The engine the run's process is.                         *)
  sources,     (* Texts of the rule pack, as loaded.                       *)
  riskSources, (* Texts of the risk pack; none without one.                *)
  rows,        (* The content read by the input loader.                    *)
  events,      (* The events read, or None.                                *)
  hashed,      (* The content read for the hash.                           *)
  result,      (* The outcome of the evaluation, or None.                  *)
  rulesDir, riskDir, inputFile, logFile,   (* The disk.                    *)
  engine,      (* The engine installed: what a replay runs on.             *)
  edits,       (* How the log file was edited since the run opened it.     *)
  changes      (* Changes made outside the run, for the bound.             *)

memory == <<request, pins, sources, riskSources, rows, events, hashed, result>>
disk   == <<rulesDir, riskDir, inputFile, logFile>>
vars   == <<memory, job, disk, engine, edits, changes>>

Request ==
  {r \in [kind: Kind, profile: Profile, risk: BOOLEAN, log: BOOLEAN] :
     r.kind = "chain" => ~ r.risk}

Running == {"load", "load risk", "read", "evaluate", "hash", "open", "write"}

TypeOK ==
  /\ request \in Request
  /\ job \in Running \union {"returned", "failed", "died"}
  /\ pins \in Engine /\ engine \in Engine
  /\ sources \in SUBSET Text
  /\ riskSources \in SUBSET Text
  /\ rows \in Content \union {None} /\ hashed \in Content \union {None}
  /\ events \in Events \union {None}
  /\ result \in Outcome \union {None}
  /\ rulesDir \in Packs /\ riskDir \in Packs
  /\ inputFile \in Content \union {None}
  /\ logFile \in Log \union {None, Torn}
  /\ edits \subseteq {"earlier", "text", "profile", "other"}
  /\ changes \in 0 .. MaxChanges

Init ==
  /\ request \in Request
  /\ job = "load"
  /\ pins \in Engine /\ engine = pins
  /\ sources = {} /\ riskSources = {}
  /\ rows = None /\ events = None /\ hashed = None
  /\ result = None
  /\ rulesDir \in Packs /\ riskDir \in Packs
  /\ inputFile \in Content
  /\ logFile \in Earlier
  /\ edits = {"earlier"}
  /\ changes = 0

-----------------------------------------------------------------------------
(* The evaluators run the rules of the input's kind; chains have no risk   *)
(* phase.                                                                  *)
Executed(kind, texts) == {t \in texts : kind \in Serves[t]}

Gate(kind, risk) == IF kind = "chain" THEN {} ELSE Executed(kind, risk)

Referenced(texts, eng) == {<<i, eng[i]>> : i \in UNION {Uses[t] : t \in texts}}

Evaluated(kind, rules, risk, profile, evs, eng) ==
  [rules |-> Executed(kind, rules), risk |-> Gate(kind, risk),
   profile |-> profile, events |-> evs,
   versions |-> Referenced(Executed(kind, rules) \union Gate(kind, risk), eng)]

(* load_compiled_rules_with_sources: one diagnostic and nothing is run; an *)
(* option or chain run also wants a rule of its kind.                      *)
LoadRules ==
  /\ job = "load"
  /\ IF /\ rulesDir \subseteq Clean[request.profile]
        /\ request.kind # "underlying" => Executed(request.kind, rulesDir) # {}
     THEN /\ sources' = rulesDir
          /\ job' = IF request.risk THEN "load risk" ELSE "read"
     ELSE /\ job' = "failed"
          /\ UNCHANGED sources
  /\ UNCHANGED <<request, pins, riskSources, rows, events, hashed, result,
                 disk, engine, edits, changes>>

LoadRisk ==
  /\ job = "load risk"
  /\ IF riskDir \subseteq Clean["risk"]
     THEN riskSources' = riskDir /\ job' = "read"
     ELSE job' = "failed" /\ UNCHANGED riskSources
  /\ UNCHANGED <<request, pins, sources, rows, events, hashed, result,
                 disk, engine, edits, changes>>

Readable(content) ==
  /\ content # None
  /\ ReadAs[content] # None
  /\ KindIn[ReadAs[content]] = request.kind

(* Wrong: goes on with the events of a rejected input.                     *)
ReadInputAnyway ==
  /\ job = "read" /\ inputFile # None
  /\ rows' = inputFile /\ events' = ReadAs[inputFile]
  /\ job' = "evaluate"
  /\ UNCHANGED <<request, pins, sources, riskSources, hashed, result,
                 disk, engine, edits, changes>>

ReadInput ==
  /\ job = "read"
  /\ IF Readable(inputFile)
     THEN rows' = inputFile /\ events' = ReadAs[inputFile] /\ job' = "evaluate"
     ELSE job' = "failed" /\ UNCHANGED <<rows, events>>
  /\ UNCHANGED <<request, pins, sources, riskSources, hashed, result,
                 disk, engine, edits, changes>>

(* Wrong: a run that raised is logged as well.                             *)
EvaluateAndLog ==
  /\ job = "evaluate"
  /\ result' = IF events \in Raising THEN None
               ELSE Evaluated(request.kind, sources, riskSources, request.profile,
                              events, pins)
  /\ job' = IF request.log THEN "hash"
            ELSE IF events \in Raising THEN "failed" ELSE "returned"
  /\ UNCHANGED <<request, pins, sources, riskSources, rows, events, hashed,
                 disk, engine, edits, changes>>

Evaluate ==
  /\ job = "evaluate"
  /\ IF events \in Raising
     THEN job' = "failed" /\ UNCHANGED result
     ELSE /\ result' = Evaluated(request.kind, sources, riskSources, request.profile,
                                 events, pins)
          /\ job' = IF request.log THEN "hash" ELSE "returned"
  /\ UNCHANGED <<request, pins, sources, riskSources, rows, events, hashed,
                 disk, engine, edits, changes>>

(* The second read; nothing catches its failing.                           *)
HashInput ==
  /\ job = "hash"
  /\ IF inputFile = None
     THEN job' = "died" /\ UNCHANGED hashed
     ELSE job' = "open" /\ hashed' = inputFile
  /\ UNCHANGED <<request, pins, sources, riskSources, rows, events, result,
                 disk, engine, edits, changes>>

Sources(texts) == {[text |-> t, sha |-> t] : t \in texts}

(* The indicators recorded are those of the rule pack only.                *)
NewLog ==
  [schema |-> "1.0-b", profile |-> request.profile, kind |-> request.kind,
   rules |-> Sources(sources), risk |-> Sources(riskSources),
   sha |-> hashed, rows |-> rows, events |-> events, referenced |-> Referenced(sources, pins)]

(* write_text opens the file, which empties it, then writes it.  A write   *)
(* cut short leaves a part of a JSON object, or all of it.                 *)
OpenLog ==
  /\ job = "open"
  /\ \/ job' = "failed" /\ UNCHANGED <<logFile, edits>>
     \/ job' = "write" /\ logFile' = Torn /\ edits' = {}
  /\ UNCHANGED <<memory, rulesDir, riskDir, inputFile, engine, changes>>

(* Wrong: a failure to write is not reported.                              *)
WriteLogAnyway ==
  /\ job = "write"
  /\ job' = "returned"
  /\ logFile' \in {logFile, NewLog}
  /\ UNCHANGED <<memory, rulesDir, riskDir, inputFile, engine, edits, changes>>

WriteLog ==
  /\ job = "write"
  /\ \/ job' = "returned" /\ logFile' = NewLog
     \/ job' = "failed" /\ logFile' \in {logFile, NewLog}
  /\ UNCHANGED <<memory, rulesDir, riskDir, inputFile, engine, edits, changes>>

Die ==
  /\ job \in Running
  /\ job' = "died"
  /\ logFile' \in {logFile} \union (IF job = "write" THEN {NewLog} ELSE {})
  /\ UNCHANGED <<memory, rulesDir, riskDir, inputFile, engine, edits, changes>>

-----------------------------------------------------------------------------
(* What others do.                                                         *)
Outside == changes < MaxChanges /\ changes' = changes + 1

EditPacks ==
  /\ Outside
  /\ rulesDir' \in Packs /\ riskDir' \in Packs
  /\ UNCHANGED <<memory, job, inputFile, logFile, engine, edits>>

EditInput ==
  /\ Outside
  /\ inputFile' \in Content \union {None}
  /\ UNCHANGED <<memory, job, rulesDir, riskDir, logFile, engine, edits>>

InstallEngine ==
  /\ Outside
  /\ engine' \in Engine
  /\ UNCHANGED <<memory, job, disk, edits>>

(* A rule text is replaced under its hash.                                 *)
EditText ==
  /\ Outside
  /\ logFile \in Log
  /\ \E t \in Text :
       \/ \E s \in logFile.rules :
            logFile' = [logFile EXCEPT !.rules = (@ \ {s}) \union {[s EXCEPT !.text = t]}]
       \/ \E s \in logFile.risk :
            logFile' = [logFile EXCEPT !.risk = (@ \ {s}) \union {[s EXCEPT !.text = t]}]
  /\ edits' = edits \union {"text"}
  /\ UNCHANGED <<memory, job, rulesDir, riskDir, inputFile, engine>>

EditProfile ==
  /\ Outside
  /\ logFile \in Log
  /\ \E p \in Profile \union {None, "unknown"} :
       logFile' = [logFile EXCEPT !.profile = p]
  /\ edits' = edits \union {"profile"}
  /\ UNCHANGED <<memory, job, rulesDir, riskDir, inputFile, engine>>

(* What neither a hash nor a check of the rules protects.                  *)
EditLog ==
  /\ Outside
  /\ logFile \in Log
  /\ \/ \E e \in Events : logFile' = [logFile EXCEPT !.events = e]
     \/ logFile' = [logFile EXCEPT !.risk = {}]
     \/ logFile' = [logFile EXCEPT !.referenced = {}]
     \/ logFile' = [logFile EXCEPT !.schema = "unsupported"]
  /\ edits' = edits \union {"other"}
  /\ UNCHANGED <<memory, job, rulesDir, riskDir, inputFile, engine>>

Next ==
  \/ LoadRules \/ LoadRisk \/ ReadInput \/ Evaluate
  \/ HashInput \/ OpenLog \/ WriteLog \/ Die
  \/ EditPacks \/ EditInput \/ InstallEngine
  \/ EditText \/ EditProfile \/ EditLog

Spec == Init /\ [][Next]_vars

-----------------------------------------------------------------------------
(* Replay.  A profile that is missing or unknown becomes signal.           *)
ReplayProfile(log) == IF log.profile \in Profile THEN log.profile ELSE "signal"

Verified(srcs, profile) == \A s \in srcs : s.sha = s.text /\ s.text \in Clean[profile]

(* load_runlog and the checks of replay_from_log.  The first variant is    *)
(* wrong: the hashes of the risk pack are not compared.                    *)
AcceptsRisk(log) ==
  /\ log.schema # "unsupported"
  /\ log.kind = KindIn[log.events]
  /\ Verified(log.rules, ReplayProfile(log))
  /\ log.referenced \subseteq {<<i, engine[i]>> : i \in Indicator}
  /\ log.events \notin Raising

Accepts(log) ==
  /\ log.schema # "unsupported"
  /\ log.kind = KindIn[log.events]
  /\ Verified(log.rules, ReplayProfile(log))
  /\ Verified(log.risk, "risk")
  /\ log.referenced \subseteq {<<i, engine[i]>> : i \in Indicator}
  /\ log.events \notin Raising

Texts(srcs) == {s.text : s \in srcs}

(* A file that is missing or was written in part does not load.            *)
ReplayOf(file) ==
  IF file \notin Log \/ ~ Accepts(file) THEN None
  ELSE Evaluated(file.kind, Texts(file.rules), Texts(file.risk), ReplayProfile(file),
                 file.events, engine)

-----------------------------------------------------------------------------
(* Replay is faithful: whatever became of the rules, the input, the texts  *)
(* and the profile in the log, and wherever the writing of it stopped,     *)
(* replaying what the run put in the log file fails or gives the run's     *)
(* outcome.  Only an edit of the profile shows, and only as the profile of *)
(* the same decisions: rules the profile replayed with does not admit are  *)
(* not run.  After a change of engine this is so for runs without risk     *)
(* rules.  (replay_from_log against run_*_from_csv_with_log)               *)
ReplayFaithful ==
  edits \subseteq {"text", "profile"} /\ (engine # pins => ~ request.risk) =>
    \A replayed \in {ReplayOf(logFile)} \ {None} :
      /\ replayed = [result EXCEPT !.profile = replayed.profile]
      /\ replayed.rules \subseteq Clean[replayed.profile]
      /\ "profile" \notin edits => replayed.profile = result.profile

(* A run asked for a log that returns its result has left a log that can   *)
(* be replayed, and it remains so until someone edits it or an indicator   *)
(* the packs refer to changes.  (write_runlog, the return after it)        *)
ReturnedRunsReplay ==
  job = "returned" /\ request.log /\ edits = {} =>
    /\ logFile \in Log
    /\ (\A t \in sources \union riskSources : \A i \in Uses[t] : engine[i] = pins[i]) =>
         ReplayOf(logFile) # None

(* The file is not touched before there is a result to log: a run whose    *)
(* rules, input or evaluation fail leaves an earlier log as it was.        *)
(* (the early returns before write_runlog)                                 *)
EarlierLogKept ==
  [][result = None /\ changes' = changes => logFile' = logFile]_vars

(* dsl_v2.0.md: "indicators.referenced[] (which indicator versions were    *)
(* referenced by the executed rules)".  Those of the risk rules are not.   *)
ReferencedByExecuted ==
  logFile \in Log /\ edits = {} => result.versions \subseteq logFile.referenced

=============================================================================
