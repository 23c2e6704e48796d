---------------------------- MODULE RunLogProofs ----------------------------
(***************************************************************************)
(* Replay is faithful, for every pack, input, engine and number of changes *)
(* made outside the run.                                                   *)
(***************************************************************************)
EXTENDS RunLog, TLAPS

RiskTexts == ~ request.risk => riskSources = {}

(* The log is the run's but for the texts kept under their hashes and the  *)
(* profile, if that was edited.                                            *)
RunsLog(log) ==
  /\ "profile" \notin edits => log.profile = request.profile
  /\ log.kind = request.kind
  /\ {s.sha : s \in log.rules} = sources
  /\ {s.sha : s \in log.risk} = riskSources
  /\ log.events = events
  /\ log.referenced = Referenced(sources, pins)

ResultIsKnown ==
  result = Evaluated(request.kind, sources, riskSources, request.profile, events, pins)

RInv ==
  /\ TypeOK
  /\ job = "load risk" => request.risk
  /\ RiskTexts
  /\ job \in {"load", "load risk", "read", "evaluate"} => result = None
  /\ job \in {"evaluate", "hash", "open", "write"} => events # None /\ rows # None
  /\ job \in {"open", "write"} => hashed # None
  /\ job \in {"hash", "open", "write"} => ResultIsKnown
  /\ job \in {"load", "load risk", "read", "evaluate", "hash", "open"} => "earlier" \in edits
  /\ "earlier" \notin edits => ResultIsKnown /\ events # None
  /\ job = "write" => logFile = Torn
  /\ "earlier" \notin edits /\ "other" \notin edits /\ logFile \in Log => RunsLog(logFile)

-----------------------------------------------------------------------------
LEMMA ExecutedTyped ==
  ASSUME NEW kind, NEW texts \in SUBSET Text PROVE Executed(kind, texts) \in SUBSET texts
BY DEF Executed

LEMMA ReferencedTyped ==
  ASSUME NEW texts \in SUBSET Text, NEW eng \in Engine
  PROVE  Referenced(texts, eng) \in SUBSET (Indicator \X Version)
<1>1. ASSUME NEW i \in UNION {Uses[t] : t \in texts}
      PROVE  <<i, eng[i]>> \in Indicator \X Version
  <2>1. i \in Indicator
    BY DataAssumption
  <2> QED
    BY <2>1 DEF Engine
<1> QED
  BY <1>1 DEF Referenced

LEMMA EvaluatedTyped ==
  ASSUME NEW kind, NEW rules \in SUBSET Text, NEW risk \in SUBSET Text,
         NEW profile \in Profile, NEW evs \in Events, NEW eng \in Engine
  PROVE  Evaluated(kind, rules, risk, profile, evs, eng) \in Outcome
<1> DEFINE run  == Executed(kind, rules)
           gate == Gate(kind, risk)
           all  == run \union gate
<1>1. run \in SUBSET Text
  BY ExecutedTyped
<1>2. gate \in SUBSET Text
  BY ExecutedTyped DEF Gate
<1> HIDE DEF run, gate
<1>3. all \in SUBSET Text
  BY <1>1, <1>2
<1> HIDE DEF all
<1>4. Referenced(all, eng) \in SUBSET (Indicator \X Version)
  BY <1>3, ReferencedTyped
<1>5. Evaluated(kind, rules, risk, profile, evs, eng) =
        [rules |-> run, risk |-> gate, profile |-> profile, events |-> evs,
         versions |-> Referenced(all, eng)]
  BY DEF Evaluated, run, gate, all
<1> QED
  BY <1>1, <1>2, <1>4, <1>5 DEF Outcome

(* Engines that agree on what a set of texts refers to evaluate it alike.  *)
LEMMA SameReferences ==
  ASSUME NEW eng \in Engine, NEW old \in Engine,
         NEW texts \in SUBSET Text, NEW run \in SUBSET texts,
         Referenced(texts, old) \subseteq {<<i, eng[i]>> : i \in Indicator}
  PROVE  Referenced(run, eng) = Referenced(run, old)
<1>1. ASSUME NEW i \in UNION {Uses[t] : t \in run} PROVE eng[i] = old[i]
  <2>1. <<i, old[i]>> \in Referenced(texts, old)
    BY DEF Referenced
  <2>2. PICK j \in Indicator : <<i, old[i]>> = <<j, eng[j]>>
    BY <2>1
  <2> QED
    BY <2>2
<1> QED
  BY <1>1 DEF Referenced

(* What a replay accepts of the run's log are the run's texts.             *)
LEMMA VerifiedTexts ==
  ASSUME NEW srcs, NEW profile, Verified(srcs, profile)
  PROVE  Texts(srcs) = {s.sha : s \in srcs}
BY DEF Verified, Texts

LEMMA RInvFaithful == RInv => ReplayFaithful
<1> SUFFICES ASSUME RInv, edits \subseteq {"text", "profile"},
                    engine # pins => ~ request.risk, ReplayOf(logFile) # None
             PROVE  /\ ReplayOf(logFile) = [result EXCEPT !.profile = ReplayOf(logFile).profile]
                    /\ ReplayOf(logFile).rules \subseteq Clean[ReplayOf(logFile).profile]
                    /\ "profile" \notin edits => ReplayOf(logFile).profile = result.profile
  BY DEF ReplayFaithful
<1>0. logFile \in Log /\ Accepts(logFile)
  BY DEF ReplayOf
<1>1. RunsLog(logFile) /\ ResultIsKnown /\ RiskTexts /\ TypeOK
  BY <1>0 DEF RInv
<1>2. PICK profile : profile = ReplayProfile(logFile)
  OBVIOUS
<1>3. Texts(logFile.rules) = sources /\ sources \subseteq Clean[profile]
  <2>1. Verified(logFile.rules, profile)
    BY <1>0, <1>2 DEF Accepts
  <2>2. Texts(logFile.rules) = sources
    BY <1>1, <2>1, VerifiedTexts DEF RunsLog
  <2>3. Texts(logFile.rules) \subseteq Clean[profile]
    BY <2>1 DEF Texts, Verified
  <2> QED BY <2>2, <2>3
<1>4. Texts(logFile.risk) = riskSources
  <2>1. Verified(logFile.risk, "risk")
    BY <1>0 DEF Accepts
  <2> QED
    BY <1>1, <2>1, VerifiedTexts DEF RunsLog
<1>5. ReplayOf(logFile) =
        Evaluated(request.kind, sources, riskSources, profile, events, engine)
  BY <1>0, <1>1, <1>2, <1>3, <1>4 DEF ReplayOf, RunsLog
<1>6. Evaluated(request.kind, sources, riskSources, profile, events, engine) =
        Evaluated(request.kind, sources, riskSources, profile, events, pins)
  <2>1. CASE engine = pins
    BY <2>1
  <2>2. CASE engine # pins
    <3>1. riskSources = {}
      BY <1>1, <2>2 DEF RiskTexts
    <3>2. Referenced(sources, pins) \subseteq {<<i, engine[i]>> : i \in Indicator}
      BY <1>0, <1>1 DEF RunsLog, Accepts
    <3> DEFINE run == Executed(request.kind, sources)
    <3>3. run \in SUBSET sources /\ sources \in SUBSET Text
          /\ engine \in Engine /\ pins \in Engine
      BY <1>1, ExecutedTyped DEF TypeOK
    <3> HIDE DEF run
    <3>4. Referenced(run, engine) = Referenced(run, pins)
      BY <3>2, <3>3, SameReferences
    <3>5. Gate(request.kind, {}) = {}
      BY DEF Gate, Executed
    <3>6. \A eng : Evaluated(request.kind, sources, {}, profile, events, eng) =
            [rules |-> run, risk |-> {}, profile |-> profile,
             events |-> events, versions |-> Referenced(run, eng)]
      BY <3>5 DEF Evaluated, run
    <3> QED
      BY <3>1, <3>4, <3>6
  <2> QED BY <2>1, <2>2
<1>7. Evaluated(request.kind, sources, riskSources, profile, events, pins) =
        [result EXCEPT !.profile = profile]
  <2>1. PICK run, gate, refs :
          \A p : Evaluated(request.kind, sources, riskSources, p, events, pins) =
                  [rules |-> run, risk |-> gate, profile |-> p, events |-> events,
                   versions |-> refs]
    BY DEF Evaluated
  <2>2. result = [rules |-> run, risk |-> gate, profile |-> request.profile,
                  events |-> events, versions |-> refs]
    BY <1>1, <2>1 DEF ResultIsKnown
  <2> QED BY <2>1, <2>2
<1>8. /\ ReplayOf(logFile).profile = profile
      /\ ReplayOf(logFile).rules = Executed(request.kind, sources)
  BY <1>5 DEF Evaluated
<1>9. ReplayOf(logFile).rules \subseteq Clean[profile]
  BY <1>3, <1>8 DEF Executed
<1>10. "profile" \notin edits => profile = result.profile
  <2>1. request.profile \in Profile /\ result.profile = request.profile
    BY <1>1 DEF TypeOK, Request, ResultIsKnown, Evaluated
  <2> QED BY <1>1, <1>2, <2>1 DEF RunsLog, ReplayProfile
<1> QED
  BY <1>5, <1>6, <1>7, <1>8, <1>9, <1>10

-----------------------------------------------------------------------------
LEMMA SourcesTyped ==
  ASSUME NEW texts \in SUBSET Text
  PROVE  /\ Sources(texts) \in SUBSET RuleSource
         /\ {s.sha : s \in Sources(texts)} = texts
<1>1. \A t \in texts : [text |-> t, sha |-> t] \in RuleSource
  BY DEF RuleSource
<1>2. \A t \in texts : [text |-> t, sha |-> t] \in Sources(texts)
  BY DEF Sources
<1>3. \A s \in Sources(texts) : s.sha \in texts /\ s \in RuleSource
  BY <1>1 DEF Sources
<1>4. ASSUME NEW t \in texts PROVE t \in {s.sha : s \in Sources(texts)}
  <2>1. [text |-> t, sha |-> t].sha = t
    OBVIOUS
  <2> QED
    BY <1>2, <2>1
<1> QED
  BY <1>3, <1>4

LEMMA NewLogTyped ==
  ASSUME RInv, job = "write" PROVE NewLog \in Log /\ RunsLog(NewLog)
<1>1. TypeOK /\ events # None /\ rows # None /\ hashed # None
  BY DEF RInv
<1>2. /\ sources \in SUBSET Text /\ riskSources \in SUBSET Text
      /\ events \in Events /\ rows \in Content /\ hashed \in Content
      /\ request.profile \in Profile /\ request.kind \in Kind
      /\ pins \in Engine
  BY <1>1 DEF TypeOK, Request
<1>3. Referenced(sources, pins) \in SUBSET (Indicator \X Version)
  BY <1>2, ReferencedTyped
<1>4. /\ Sources(sources) \in SUBSET RuleSource /\ {s.sha : s \in Sources(sources)} = sources
      /\ Sources(riskSources) \in SUBSET RuleSource
      /\ {s.sha : s \in Sources(riskSources)} = riskSources
  BY <1>2, SourcesTyped
<1> QED
  BY <1>2, <1>3, <1>4 DEF NewLog, Log, RunsLog

(* Exchanging a source for one of the same hash leaves the hashes as they  *)
(* were.                                                                   *)
LEMMA TextEditKeepsHashes ==
  ASSUME NEW srcs \in SUBSET RuleSource, NEW s \in srcs, NEW edited \in RuleSource,
         edited.sha = s.sha
  PROVE  {x.sha : x \in (srcs \ {s}) \union {edited}} = {x.sha : x \in srcs}
<1> DEFINE new == (srcs \ {s}) \union {edited}
<1>1. ASSUME NEW x \in new PROVE x.sha \in {y.sha : y \in srcs}
  OBVIOUS
<1>2. ASSUME NEW x \in srcs PROVE x.sha \in {y.sha : y \in new}
  OBVIOUS
<1> QED
  BY <1>1, <1>2

LEMMA InitRInv == Init => RInv
<1> SUFFICES ASSUME Init PROVE RInv
  OBVIOUS
<1>1. logFile \in Log \union {None, Torn}
  BY EarlierAssumption DEF Init
<1>2. changes \in 0 .. MaxChanges
  BY DataAssumption DEF Init
<1> QED
  BY <1>1, <1>2 DEF Init, RInv, TypeOK, Running, RiskTexts

LEMMA RunKeepsRInv ==
  RInv /\ (LoadRules \/ LoadRisk \/ ReadInput \/ Evaluate \/ HashInput
           \/ OpenLog \/ WriteLog \/ Die) => RInv'
<1> SUFFICES ASSUME RInv,
                    LoadRules \/ LoadRisk \/ ReadInput \/ Evaluate \/ HashInput
                      \/ OpenLog \/ WriteLog \/ Die
             PROVE  RInv'
  OBVIOUS
<1> USE DEF memory, disk
<1>1. CASE LoadRules
  <2>1. rulesDir \in SUBSET Text
    BY DataAssumption DEF RInv, TypeOK
  <2> QED
    BY <1>1, <2>1 DEF LoadRules, RInv, TypeOK, Running, RiskTexts
<1>2. CASE LoadRisk
  <2>1. riskDir \in SUBSET Text
    BY DataAssumption DEF RInv, TypeOK
  <2> QED
    BY <1>2, <2>1 DEF LoadRisk, RInv, TypeOK, Running, RiskTexts
<1>3. CASE ReadInput
  <2>1. Readable(inputFile) => /\ inputFile \in Content /\ inputFile # None
                               /\ ReadAs[inputFile] \in Events /\ ReadAs[inputFile] # None
    BY DataAssumption, NoneAssumption DEF Readable, RInv, TypeOK
  <2> QED
    BY <1>3, <2>1 DEF ReadInput, RInv, TypeOK, Running, RiskTexts
<1>4. CASE Evaluate
  <2>1. Evaluated(request.kind, sources, riskSources, request.profile, events, pins) \in Outcome
    BY <1>4, EvaluatedTyped DEF Evaluate, RInv, TypeOK, Request
  <2> QED
    BY <1>4, <2>1 DEF Evaluate, RInv, TypeOK, Running, RiskTexts, ResultIsKnown
<1>5. CASE HashInput
  BY <1>5 DEF HashInput, RInv, TypeOK, Running, RiskTexts, ResultIsKnown
<1>6. CASE OpenLog
  <2>1. Torn \notin Log
    BY NoneAssumption
  <2> QED
    BY <1>6, <2>1 DEF OpenLog, RInv, TypeOK, Running, RiskTexts, ResultIsKnown
<1>7. CASE WriteLog
  <2>1. NewLog \in Log /\ RunsLog(NewLog)
    BY <1>7, NewLogTyped DEF WriteLog
  <2>2. logFile' \in {NewLog, Torn} /\ Torn \notin Log
    BY <1>7, NoneAssumption DEF WriteLog, RInv
  <2>3. UNCHANGED <<memory, rulesDir, riskDir, inputFile, engine, edits, changes>>
        /\ job = "write" /\ job' \in {"returned", "failed"}
    BY <1>7 DEF WriteLog
  <2>4. logFile' \in Log => RunsLog(logFile)'
    BY <2>1, <2>2, <2>3 DEF RunsLog
  <2> HIDE DEF NewLog
  <2>5. TypeOK'
    BY <2>1, <2>2, <2>3 DEF RInv, TypeOK
  <2>6. ResultIsKnown' /\ RiskTexts' /\ events' # None
    BY <2>3 DEF RInv, ResultIsKnown, RiskTexts
  <2> QED
    BY <2>3, <2>4, <2>5, <2>6 DEF RInv
<1>8. CASE Die
  <2>1. UNCHANGED <<memory, rulesDir, riskDir, inputFile, engine, edits, changes>>
        /\ job \in Running /\ job' = "died"
    BY <1>8 DEF Die
  <2>2. logFile' = logFile \/ (job = "write" /\ logFile' = NewLog)
    BY <1>8 DEF Die
  <2> HIDE DEF NewLog
  <2>3. job = "write" => NewLog \in Log /\ RunsLog(NewLog)
    BY NewLogTyped
  <2>4. \A log : RunsLog(log) => RunsLog(log)'
    BY <2>1 DEF RunsLog
  <2>5. TypeOK'
    BY <2>1, <2>2, <2>3 DEF RInv, TypeOK
  <2>6. /\ ResultIsKnown <=> ResultIsKnown'
        /\ RiskTexts <=> RiskTexts'
    BY <2>1 DEF ResultIsKnown, RiskTexts
  <2>7. "earlier" \notin edits' /\ "other" \notin edits' /\ logFile' \in Log
          => RunsLog(logFile)'
    BY <2>1, <2>2, <2>3, <2>4 DEF RInv, RunsLog
  <2> QED BY <2>1, <2>5, <2>6, <2>7 DEF RInv
<1> QED
  BY <1>1, <1>2, <1>3, <1>4, <1>5, <1>6, <1>7, <1>8

LEMMA OthersKeepRInv ==
  RInv /\ (EditPacks \/ EditInput \/ InstallEngine
           \/ EditText \/ EditProfile \/ EditLog) => RInv'
<1> SUFFICES ASSUME RInv,
                    EditPacks \/ EditInput \/ InstallEngine
                      \/ EditText \/ EditProfile \/ EditLog
             PROVE  RInv'
  OBVIOUS
<1> USE DEF memory, disk
<1>1. Outside => changes' \in 0 .. MaxChanges
  <2>1. MaxChanges \in Nat
    BY DataAssumption
  <2>2. changes \in 0 .. MaxChanges
    BY DEF RInv, TypeOK
  <2> QED
    BY <2>1, <2>2 DEF Outside
<1>2. CASE EditPacks
  <2>1. /\ UNCHANGED <<memory, job, logFile, edits>>
        /\ changes' \in 0 .. MaxChanges
        /\ rulesDir' \in Packs /\ riskDir' \in Packs
        /\ UNCHANGED <<inputFile, engine>>
    BY <1>1, <1>2 DEF EditPacks
  <2>2. TypeOK'
    BY <2>1 DEF RInv, TypeOK
  <2>3. RunsLog(logFile) => RunsLog(logFile)'
    BY <2>1 DEF RunsLog
  <2> QED
    BY <2>1, <2>2, <2>3 DEF RInv, RiskTexts, ResultIsKnown
<1>3. CASE EditInput
  <2>1. /\ UNCHANGED <<memory, job, logFile, edits>>
        /\ changes' \in 0 .. MaxChanges
        /\ inputFile' \in Content \union {None}
        /\ UNCHANGED <<rulesDir, riskDir, engine>>
    BY <1>1, <1>3 DEF EditInput
  <2>2. TypeOK'
    BY <2>1 DEF RInv, TypeOK
  <2>3. RunsLog(logFile) => RunsLog(logFile)'
    BY <2>1 DEF RunsLog
  <2> QED
    BY <2>1, <2>2, <2>3 DEF RInv, RiskTexts, ResultIsKnown
<1>4. CASE InstallEngine
  <2>1. /\ UNCHANGED <<memory, job, logFile, edits>>
        /\ changes' \in 0 .. MaxChanges
        /\ engine' \in Engine
        /\ UNCHANGED <<rulesDir, riskDir, inputFile>>
    BY <1>1, <1>4 DEF InstallEngine
  <2>2. TypeOK'
    BY <2>1 DEF RInv, TypeOK
  <2>3. RunsLog(logFile) => RunsLog(logFile)'
    BY <2>1 DEF RunsLog
  <2> QED
    BY <2>1, <2>2, <2>3 DEF RInv, RiskTexts, ResultIsKnown
<1>5. CASE EditText
  <2>1. logFile \in Log /\ logFile # Torn
    BY <1>5, NoneAssumption DEF EditText
  <2>2. /\ logFile' \in Log
        /\ logFile'.profile = logFile.profile /\ logFile'.kind = logFile.kind
        /\ logFile'.events = logFile.events
        /\ logFile'.referenced = logFile.referenced
        /\ {s.sha : s \in logFile'.rules} = {s.sha : s \in logFile.rules}
        /\ {s.sha : s \in logFile'.risk} = {s.sha : s \in logFile.risk}
    <3>1. PICK t \in Text :
            \/ \E s \in logFile.rules :
                 logFile' = [logFile EXCEPT !.rules = (@ \ {s}) \union {[s EXCEPT !.text = t]}]
            \/ \E s \in logFile.risk :
                 logFile' = [logFile EXCEPT !.risk = (@ \ {s}) \union {[s EXCEPT !.text = t]}]
      BY <1>5 DEF EditText
    <3>2. logFile.rules \in SUBSET RuleSource /\ logFile.risk \in SUBSET RuleSource
      BY <2>1 DEF Log
    <3>3. CASE \E s \in logFile.rules :
                 logFile' = [logFile EXCEPT !.rules = (@ \ {s}) \union {[s EXCEPT !.text = t]}]
      <4>1. PICK s \in logFile.rules :
              logFile' = [logFile EXCEPT !.rules = (@ \ {s}) \union {[s EXCEPT !.text = t]}]
        BY <3>3
      <4>2. PICK edited : edited = [s EXCEPT !.text = t]
        OBVIOUS
      <4>3. edited \in RuleSource /\ edited.sha = s.sha
        BY <3>2, <4>2 DEF RuleSource
      <4>4. {x.sha : x \in (logFile.rules \ {s}) \union {edited}} = {x.sha : x \in logFile.rules}
        BY <3>2, <4>3, TextEditKeepsHashes
      <4>5. PICK new : new = (logFile.rules \ {s}) \union {edited}
        OBVIOUS
      <4>6. logFile' = [logFile EXCEPT !.rules = new] /\ new \in SUBSET RuleSource
        BY <3>2, <4>1, <4>2, <4>3, <4>5
      <4> QED
        BY <2>1, <4>4, <4>5, <4>6 DEF Log
    <3>4. CASE \E s \in logFile.risk :
                 logFile' = [logFile EXCEPT !.risk = (@ \ {s}) \union {[s EXCEPT !.text = t]}]
      <4>1. PICK s \in logFile.risk :
              logFile' = [logFile EXCEPT !.risk = (@ \ {s}) \union {[s EXCEPT !.text = t]}]
        BY <3>4
      <4>2. PICK edited : edited = [s EXCEPT !.text = t]
        OBVIOUS
      <4>3. edited \in RuleSource /\ edited.sha = s.sha
        BY <3>2, <4>2 DEF RuleSource
      <4>4. {x.sha : x \in (logFile.risk \ {s}) \union {edited}} = {x.sha : x \in logFile.risk}
        BY <3>2, <4>3, TextEditKeepsHashes
      <4>5. PICK new : new = (logFile.risk \ {s}) \union {edited}
        OBVIOUS
      <4>6. logFile' = [logFile EXCEPT !.risk = new] /\ new \in SUBSET RuleSource
        BY <3>2, <4>1, <4>2, <4>3, <4>5
      <4> QED
        BY <2>1, <4>4, <4>5, <4>6 DEF Log
    <3> QED
      BY <3>1, <3>3, <3>4
  <2>3. /\ UNCHANGED <<memory, job, rulesDir, riskDir, inputFile, engine>>
        /\ edits' = edits \union {"text"} /\ changes' \in 0 .. MaxChanges
    BY <1>1, <1>5 DEF EditText
  <2>4. job # "write"
    BY <2>1 DEF RInv
  <2>5. RunsLog(logFile) => RunsLog(logFile)'
    BY <2>2, <2>3 DEF RunsLog
  <2>6. TypeOK'
    BY <2>2, <2>3 DEF RInv, TypeOK
  <2> QED
    BY <2>1, <2>3, <2>4, <2>5, <2>6 DEF RInv, RiskTexts, ResultIsKnown
<1>6. CASE EditLog
  <2>1. logFile \in Log /\ logFile # Torn
    BY <1>6, NoneAssumption DEF EditLog
  <2>2. logFile' \in Log
    BY <1>6, <2>1 DEF EditLog, Log, Profile
  <2>3. /\ UNCHANGED <<memory, job, rulesDir, riskDir, inputFile, engine>>
        /\ edits' = edits \union {"other"} /\ changes' \in 0 .. MaxChanges
    BY <1>1, <1>6 DEF EditLog
  <2>4. job # "write"
    BY <2>1 DEF RInv
  <2>5. TypeOK'
    BY <2>2, <2>3 DEF RInv, TypeOK
  <2> QED
    BY <2>3, <2>4, <2>5 DEF RInv, RiskTexts, ResultIsKnown
<1>7. CASE EditProfile
  <2>1. logFile \in Log /\ logFile # Torn
    BY <1>7, NoneAssumption DEF EditProfile
  <2>2. PICK p \in Profile \union {None, "unknown"} :
          logFile' = [logFile EXCEPT !.profile = p]
    BY <1>7 DEF EditProfile
  <2>3. /\ UNCHANGED <<memory, job, rulesDir, riskDir, inputFile, engine>>
        /\ edits' = edits \union {"profile"} /\ changes' \in 0 .. MaxChanges
    BY <1>1, <1>7 DEF EditProfile
  <2>4. /\ logFile' \in Log
        /\ logFile'.kind = logFile.kind /\ logFile'.events = logFile.events
        /\ logFile'.rules = logFile.rules /\ logFile'.risk = logFile.risk
        /\ logFile'.referenced = logFile.referenced
    BY <2>1, <2>2 DEF Log
  <2>5. job # "write"
    BY <2>1 DEF RInv
  <2>6. RunsLog(logFile) => RunsLog(logFile)'
    BY <2>3, <2>4 DEF RunsLog
  <2>7. TypeOK'
    BY <2>3, <2>4 DEF RInv, TypeOK
  <2> QED
    BY <2>1, <2>3, <2>5, <2>6, <2>7 DEF RInv, RiskTexts, ResultIsKnown
<1> QED
  BY <1>2, <1>3, <1>4, <1>5, <1>6, <1>7

LEMMA NextRInv == RInv /\ [Next]_vars => RInv'
<1> SUFFICES ASSUME RInv, [Next]_vars PROVE RInv'
  OBVIOUS
<1>1. CASE Next
  BY <1>1, RunKeepsRInv, OthersKeepRInv DEF Next
<1>2. CASE UNCHANGED vars
  <2>1. TypeOK'
    BY <1>2 DEF vars, memory, disk, RInv, TypeOK
  <2>2. RunsLog(logFile) => RunsLog(logFile)'
    BY <1>2 DEF vars, memory, disk, RunsLog
  <2> QED
    BY <1>2, <2>1, <2>2 DEF vars, memory, disk, RInv, RiskTexts, ResultIsKnown
<1> QED
  BY <1>1, <1>2

(* Every state of the run and of the disk has the declared types.          *)
THEOREM RunLogTypeCorrect == Spec => []TypeOK
<1>1. RInv => TypeOK
  BY DEF RInv
<1> QED
  BY <1>1, InitRInv, NextRInv, PTL DEF Spec

(* Whatever was edited on the disk, in whatever order and how often, and   *)
(* the texts and the profile in the log among it, and wherever the writing *)
(* stopped, a replay of the run's log fails or evaluates exactly what the  *)
(* run did, under a profile that admits it.                                *)
THEOREM ReplayAlwaysFaithful == Spec => []ReplayFaithful
<1> QED
  BY RInvFaithful, InitRInv, NextRInv, PTL DEF Spec

-----------------------------------------------------------------------------
(* What a run has checked by the time it writes its log, which a replay    *)
(* checks again.                                                           *)
Checked ==
  /\ sources \subseteq Clean[request.profile]
  /\ riskSources \subseteq Clean["risk"]
  /\ events # None => KindIn[events] = request.kind
  /\ job \in {"hash", "open", "write", "returned"} =>
       events \in Events /\ events \notin Raising

Written ==
  /\ job = "write" => edits = {}
  /\ job = "returned" /\ request.log /\ edits = {} =>
       logFile = NewLog /\ logFile \in Log

WInv == Checked /\ Written

LEMMA InitWInv == Init => WInv
BY NoneAssumption DEF Init, WInv, Checked, Written

LEMMA NextWInv ==
  ASSUME RInv, RInv', WInv, [Next]_vars
  PROVE  WInv'
<1> USE DEF memory, disk
<1>1. CASE LoadRules
  BY <1>1 DEF LoadRules, RInv, WInv, Checked, Written
<1>2. CASE LoadRisk
  BY <1>2 DEF LoadRisk, RInv, WInv, Checked, Written
<1>3. CASE ReadInput
  BY <1>3 DEF ReadInput, Readable, RInv, WInv, Checked, Written
<1>4. CASE Evaluate
  <2>1. events \in Events
    BY <1>4 DEF Evaluate, RInv, TypeOK
  <2> QED BY <1>4, <2>1 DEF Evaluate, RInv, WInv, Checked, Written
<1>5. CASE HashInput
  BY <1>5 DEF HashInput, WInv, Checked, Written
<1>6. CASE OpenLog
  BY <1>6 DEF OpenLog, WInv, Checked, Written
<1>7. CASE WriteLog
  <2>1. Checked'
    BY <1>7 DEF WriteLog, WInv, Checked
  <2>2. NewLog' = NewLog
    BY <1>7 DEF WriteLog, NewLog
  <2> HIDE DEF NewLog
  <2>3. NewLog \in Log
    BY <1>7, NewLogTyped DEF WriteLog
  <2>4. Written'
    BY <1>7, <2>2, <2>3 DEF WriteLog, Written
  <2> QED BY <2>1, <2>4 DEF WInv
<1>8. CASE Die
  BY <1>8 DEF Die, WInv, Checked, Written
<1>9. CASE EditPacks \/ EditInput \/ InstallEngine \/ UNCHANGED vars
  <2>1. UNCHANGED <<memory, job, logFile, edits>>
    BY <1>9 DEF EditPacks, EditInput, InstallEngine, vars
  <2>2. NewLog' = NewLog
    BY <2>1 DEF NewLog
  <2> HIDE DEF NewLog
  <2> QED BY <2>1, <2>2 DEF WInv, Checked, Written
<1>10. CASE EditText \/ EditProfile \/ EditLog
  <2>1. /\ UNCHANGED <<memory, job>> /\ edits' # {}
        /\ logFile \in Log
    BY <1>10 DEF EditText, EditProfile, EditLog
  <2>2. job # "write"
    BY <2>1, NoneAssumption DEF RInv
  <2> QED BY <2>1, <2>2 DEF WInv, Checked, Written
<1> QED
  BY <1>1, <1>2, <1>3, <1>4, <1>5, <1>6, <1>7, <1>8, <1>9, <1>10 DEF Next

(* At every moment of a run: what it has read passed the checks a replay   *)
(* makes again, and a log no one touched is, once written, the log of this *)
(* run and nothing else (run_underlying_from_csv_with_log and its          *)
(* siblings, write_runlog).                                                *)
THEOREM LogInvariant == Spec => [](RInv /\ WInv)
<1>1. RInv /\ WInv /\ [Next]_vars => (RInv /\ WInv)'
  BY NextRInv, NextWInv
<1> QED BY <1>1, InitRInv, InitWInv, PTL DEF Spec

(* A replay accepts the log the run wrote, on an engine that agrees on the *)
(* indicators the packs refer to.                                          *)
LEMMA NewLogAccepted ==
  ASSUME RInv, WInv, job = "returned", NewLog \in Log,
         \A t \in sources \union riskSources : \A i \in Uses[t] : engine[i] = pins[i]
  PROVE  ReplayOf(NewLog) # None
<1>1. /\ events \in Events /\ events \notin Raising
      /\ KindIn[events] = request.kind
      /\ sources \subseteq Clean[request.profile]
      /\ riskSources \subseteq Clean["risk"]
      /\ request.profile \in Profile
      /\ sources \in SUBSET Text /\ riskSources \in SUBSET Text /\ engine \in Engine
  BY NoneAssumption DEF RInv, WInv, Checked, TypeOK, Request
<1>2. PICK log : log = NewLog
  OBVIOUS
<1>3. /\ log.schema = "1.0-b" /\ log.profile = request.profile
      /\ log.kind = request.kind /\ log.events = events
      /\ log.rules = Sources(sources) /\ log.risk = Sources(riskSources)
      /\ log.referenced = Referenced(sources, pins)
  BY <1>2 DEF NewLog
<1>4. ReplayProfile(log) = request.profile
  BY <1>1, <1>3 DEF ReplayProfile
<1>5. Verified(log.rules, request.profile) /\ Verified(log.risk, "risk")
  BY <1>1, <1>3 DEF Verified, Sources
<1>6. log.referenced \subseteq {<<i, engine[i]>> : i \in Indicator}
  <2>1. ASSUME NEW i \in UNION {Uses[t] : t \in sources}
        PROVE  <<i, pins[i]>> \in {<<j, engine[j]>> : j \in Indicator}
    <3>1. i \in Indicator /\ engine[i] = pins[i]
      BY <1>1, DataAssumption
    <3> QED BY <3>1
  <2> QED BY <1>3, <2>1 DEF Referenced
<1>7. Accepts(log)
  BY <1>1, <1>3, <1>4, <1>5, <1>6 DEF Accepts
<1>8. Texts(log.rules) \in SUBSET Text /\ Texts(log.risk) \in SUBSET Text
  <2>1. \A t \in sources : [text |-> t, sha |-> t].text = t
    OBVIOUS
  <2> QED BY <1>1, <1>3 DEF Texts, Sources
<1>9. Evaluated(log.kind, Texts(log.rules), Texts(log.risk), ReplayProfile(log),
                log.events, engine) \in Outcome
  BY <1>1, <1>3, <1>4, <1>8, EvaluatedTyped
<1> QED BY <1>2, <1>7, <1>9, NoneAssumption DEF ReplayOf

(* A run asked for a log that returns has left one that replays, until     *)
(* someone edits it or the indicators change: what replay_from_log         *)
(* checks again, the run had checked before write_runlog.                  *)
THEOREM ReturnedRunsAlwaysReplay == Spec => []ReturnedRunsReplay
<1>1. RInv /\ WInv => ReturnedRunsReplay
  BY NewLogAccepted DEF ReturnedRunsReplay, WInv, Written
<1> QED BY <1>1, LogInvariant, PTL

(* No step of a run touches the log file before there is a result to log   *)
(* (the early returns before write_runlog).                                *)
THEOREM EarlierLogAlwaysKept == Spec => EarlierLogKept
<1> DEFINE Kept == result = None /\ changes' = changes => logFile' = logFile
<1>1. ASSUME RInv, Next, result = None, changes' = changes
      PROVE  logFile' = logFile
  <2> USE DEF memory, disk
  <2>1. job \notin {"open", "write"}
    <3>1. ASSUME job \in {"open", "write"}
          PROVE  result \in Outcome
      BY <1>1, <3>1, EvaluatedTyped, NoneAssumption
         DEF RInv, TypeOK, Request, ResultIsKnown
    <3> QED BY <1>1, <3>1, NoneAssumption
  <2>2. ~ (EditText \/ EditProfile \/ EditLog)
    <3>1. changes \in Nat
      <4>1. MaxChanges \in Nat
        BY DataAssumption
      <4>2. changes \in 0 .. MaxChanges
        BY <1>1 DEF RInv, TypeOK
      <4> QED BY <4>1, <4>2
    <3> QED BY <1>1, <3>1 DEF EditText, EditProfile, EditLog, Outside
  <2> QED
    BY <1>1, <2>1, <2>2
       DEF Next, LoadRules, LoadRisk, ReadInput, Evaluate, HashInput, OpenLog,
           WriteLog, Die, EditPacks, EditInput, InstallEngine
<1>2. RInv /\ [Next]_vars => [Kept]_vars
  BY <1>1
<1> QED BY <1>2, InitRInv, NextRInv, PTL DEF Spec, EarlierLogKept

=============================================================================
