------------------------- MODULE ModelBudgetProofs -------------------------
(***************************************************************************)
(* What the model phases of a Run spend and record, for every value of the *)
(* limits, any number of phases and files, and every fault.                *)
(***************************************************************************)
EXTENDS ModelBudget, FiniteSetTheorems, TLAPS

(***************************************************************************)
(* The inductive invariant.  Every request that was sent is in exactly one *)
(* counter: recorded by the Run, held by the result about to be recorded,  *)
(* or held by one of the three layers that count within a phase.           *)
(***************************************************************************)

\* Where each layer may hold a count, and how much of the allowance is left.
Layers ==
    /\ pc \notin {"send", "record"} => consumed = 0
    /\ pc \notin {"turn", "send", "record", "tools"} => requests = 0
    /\ pc \notin Working => reqs = 0 /\ tools = 0 /\ files = {}
    /\ pc \in {"turn", "tools"} => requests <= Allowance
    /\ pc = "tools" => requests >= 1
    /\ pc = "send" => requests + consumed < Allowance /\ consumed < 3
    /\ pc = "record" => consumed >= 1 /\ requests + consumed <= Allowance
    /\ pc \notin {"persisted", "failed"} => result = NoUsage
    /\ pc = "persisted" => result.why = "none"
    /\ pc = "failed" => result.why # "none"
    /\ pc # "ready" => phase >= 1
    /\ pc = "ended" <=> cause # "none"
    /\ phase = 0 \/ (phase = 1 /\ pc \notin {"ready", "ended"}) =>
          used = 0 /\ toolsUsed = 0 /\ filesRead = {}

Uncounted == {"escaped", "storage"}

Requests ==
    /\ sent <= MAX_MODEL_REQUESTS
    /\ used + result.model_requests <= sent
    /\ pc \in Working => sent = used + reqs + requests + consumed
    /\ pc \in {"ready", "persisted"} => sent = used + result.model_requests
    /\ pc = "failed" /\ result.why \notin Uncounted => sent = used + result.model_requests
    /\ pc = "ended" /\ cause \notin Uncounted => sent = used
    /\ pc = "failed" /\ result.why = "limit_requests" => sent = MAX_MODEL_REQUESTS
    /\ pc = "ended" /\ cause = "limit_requests" => sent = MAX_MODEL_REQUESTS

Executions ==
    /\ ran <= MAX_TOOL_EXECUTIONS
    /\ toolsUsed + result.tool_executions <= ran
    /\ pc \in Working => ran = toolsUsed + tools
    /\ pc \in {"ready", "persisted"} => ran = toolsUsed + result.tool_executions
    /\ pc = "failed" /\ result.why # "storage" => ran = toolsUsed + result.tool_executions
    /\ pc = "ended" /\ cause # "storage" => ran = toolsUsed
    /\ pc = "failed" /\ result.why = "limit_tools" => ran = MAX_TOOL_EXECUTIONS
    /\ pc = "ended" /\ cause = "limit_tools" => ran = MAX_TOOL_EXECUTIONS

\* All the files the Run has claimed, recorded or not.
Claimed == filesRead \cup files \cup result.files_read

Reads ==
    /\ Cardinality(Claimed) <= MAX_FILES_READ
    /\ Cardinality(shown) <= MAX_FILES_READ
    /\ pc \in Working \cup {"ready", "persisted"} => shown \subseteq Claimed
    /\ pc = "failed" /\ result.why # "storage" => shown \subseteq Claimed
    /\ pc = "ended" /\ cause # "storage" => shown \subseteq filesRead
    /\ pc = "failed" /\ result.why = "limit_files" => Cardinality(Claimed) = MAX_FILES_READ
    /\ pc = "ended" /\ cause = "limit_files" => Cardinality(filesRead) = MAX_FILES_READ

Numbers ==
    /\ \A n \in DOMAIN log : log[n] = n
    /\ sent \in Len(log) .. Len(log) + 1
    /\ pc \in (Working \ {"record"}) \cup {"ready", "persisted"} => Len(log) = sent
    /\ pc = "record" => Len(log) + 1 = sent

IInv == TypeOK /\ Layers /\ Requests /\ Executions /\ Reads /\ Numbers

-----------------------------------------------------------------------------
LEMMA FewerFiles ==
    ASSUME NEW S \in SUBSET Files, NEW R \in SUBSET S
    PROVE  Cardinality(R) \in Nat /\ Cardinality(S) \in Nat /\ Cardinality(R) <= Cardinality(S)
  <1>1. IsFiniteSet(Files)
    BY SizesAssumption, FS_Interval DEF Files
  <1>2. IsFiniteSet(S)
    BY <1>1, FS_Subset
  <1> QED
    BY <1>2, FS_Subset, FS_CardinalityType

(***************************************************************************)
(* A phase that ends with an error: whatever the layer, it is enough that  *)
(* the counters the error carries are right.                               *)
(***************************************************************************)
LEMMA StopStep ==
    ASSUME IInv, pc \in Working \cup {"died"},
           NEW why \in Causes, NEW n \in Nat, NEW t \in Nat, NEW fs \in SUBSET Files,
           Stop(why, n, t, fs),
           sent' \in Nat, sent' <= MAX_MODEL_REQUESTS, used + n <= sent',
           why \notin Uncounted => used + n = sent',
           why = "limit_requests" => sent' = MAX_MODEL_REQUESTS,
           ran' \in Nat, ran' <= MAX_TOOL_EXECUTIONS, toolsUsed + t <= ran',
           why # "storage" => toolsUsed + t = ran',
           why = "limit_tools" => ran' = MAX_TOOL_EXECUTIONS,
           shown' = shown,
           Cardinality(filesRead \cup fs) <= MAX_FILES_READ,
           why # "storage" => shown \subseteq filesRead \cup fs,
           why = "limit_files" => Cardinality(filesRead \cup fs) = MAX_FILES_READ,
           log' \in Seq(Nat), \A k \in DOMAIN log' : log'[k] = k,
           sent' \in Len(log') .. Len(log') + 1
    PROVE  IInv'
  <1> USE LimitsAssumption, SizesAssumption DEF IInv
  <1>1. TypeOK'
    <2>1. n \in 0 .. MAX_MODEL_REQUESTS /\ t \in 0 .. MAX_TOOL_EXECUTIONS
      BY DEF TypeOK
    <2>2. result' \in Usages
      BY <2>1 DEF Stop, Usages
    <2> QED
      BY <2>2 DEF Stop, NoLayers, recorded, TypeOK, Points, Answers
  <1>2. Layers'
    <2>1. result'.why = why /\ why # "none"
      BY DEF Stop, Causes, Limits
    <2>2. pc # "ready" /\ pc # "ended" /\ cause = "none" /\ cause' = cause /\ phase' = phase
      BY DEF Stop, recorded, Layers, Working
    <2> QED
      BY <2>1, <2>2 DEF Stop, NoLayers, recorded, Layers, Working
  <1>3. Requests'
    BY DEF Stop, NoLayers, recorded, TypeOK, Layers, Requests, NoUsage, Working, Allowance,
           Uncounted
  <1>4. Executions'
    BY DEF Stop, NoLayers, recorded, TypeOK, Layers, Executions, NoUsage, Working
  <1>5. Reads'
    BY DEF Stop, NoLayers, recorded, TypeOK, Layers, Reads, Claimed, NoUsage, Working
  <1>6. Numbers'
    BY DEF Stop, NoLayers, recorded, TypeOK, Layers, Requests, Numbers, NoUsage, Working,
           Allowance
  <1> QED
    BY <1>1, <1>2, <1>3, <1>4, <1>5, <1>6

-----------------------------------------------------------------------------
(* The steps that end no phase with an error, one lemma each. *)

LEMMA StartPhaseStep == IInv /\ StartPhase => IInv'
  <1> SUFFICES ASSUME IInv, StartPhase PROVE IInv'
    OBVIOUS
  <1> USE LimitsAssumption, SizesAssumption DEF IInv
  <1>1. TypeOK'
    BY DEF StartPhase, recorded, layers, inspect, seen, TypeOK, Layers, Requests, Executions,
           Usages, NoUsage, Working, Points, Causes, Limits, Answers, Files, Allowance
  <1>2. Layers'
    BY DEF StartPhase, recorded, layers, inspect, seen, TypeOK, Layers, Requests, NoUsage,
           Working, Allowance
  <1>3. Requests'
    BY DEF StartPhase, recorded, layers, inspect, seen, TypeOK, Layers, Requests, NoUsage,
           Working, Allowance, Uncounted
  <1>4. Executions'
    BY DEF StartPhase, recorded, layers, inspect, seen, TypeOK, Layers, Executions, NoUsage,
           Working
  <1>5. Reads'
    BY DEF StartPhase, recorded, layers, inspect, seen, TypeOK, Layers, Reads, Claimed, NoUsage,
           Working
  <1>6. Numbers'
    BY DEF StartPhase, recorded, layers, inspect, seen, TypeOK, Layers, Requests, Numbers,
           NoUsage, Working, Allowance
  <1> QED
    BY <1>1, <1>2, <1>3, <1>4, <1>5, <1>6

LEMMA PersistStep == IInv /\ Persist => IInv'
  <1> SUFFICES ASSUME IInv, Persist PROVE IInv'
    OBVIOUS
  <1> USE LimitsAssumption, SizesAssumption DEF IInv
  <1>1. TypeOK'
    BY DEF Persist, NoLayers, recorded, layers, inspect, seen, TypeOK, Layers, Requests,
           Executions, Usages, NoUsage, Working, Points, Causes, Limits, Answers, Files, Allowance
  <1>2. Layers'
    BY DEF Persist, NoLayers, recorded, layers, inspect, seen, TypeOK, Layers, Requests, NoUsage,
           Working, Allowance
  <1>3. Requests'
    BY DEF Persist, NoLayers, recorded, layers, inspect, seen, TypeOK, Layers, Requests, NoUsage,
           Working, Allowance, Uncounted
  <1>4. Executions'
    BY DEF Persist, NoLayers, recorded, layers, inspect, seen, TypeOK, Layers, Executions,
           NoUsage, Working
  <1>5. Reads'
    <2>1. Claimed' = Claimed /\ Claimed \subseteq Files
      BY DEF Persist, NoLayers, recorded, Claimed, TypeOK, Layers, NoUsage, Working, Usages
    <2> QED
      BY <2>1
         DEF Persist, NoLayers, recorded, seen, Reads, Claimed, TypeOK, Layers, NoUsage, Working
  <1>6. Numbers'
    BY DEF Persist, NoLayers, recorded, layers, inspect, seen, TypeOK, Layers, Requests, Numbers,
           NoUsage, Working, Allowance
  <1> QED
    BY <1>1, <1>2, <1>3, <1>4, <1>5, <1>6

LEMMA RefuseOutputStep == IInv /\ RefuseOutput => IInv'
  <1> SUFFICES ASSUME IInv, RefuseOutput PROVE IInv'
    OBVIOUS
  <1> USE LimitsAssumption, SizesAssumption DEF IInv
  <1>1. TypeOK'
    BY DEF RefuseOutput, NoLayers, recorded, layers, inspect, seen, TypeOK, Layers, Requests,
           Executions, Usages, NoUsage, Working, Points, Causes, Limits, Answers, Files, Allowance
  <1>2. Layers'
    BY DEF RefuseOutput, NoLayers, recorded, layers, inspect, seen, TypeOK, Layers, Requests,
           NoUsage, Working, Allowance
  <1>3. Requests'
    BY DEF RefuseOutput, NoLayers, recorded, layers, inspect, seen, TypeOK, Layers, Requests,
           NoUsage, Working, Allowance, Uncounted
  <1>4. Executions'
    BY DEF RefuseOutput, NoLayers, recorded, layers, inspect, seen, TypeOK, Layers, Executions,
           NoUsage, Working
  <1>5. Reads'
    <2>1. Claimed' \subseteq Claimed /\ Claimed \subseteq Files
      BY DEF RefuseOutput, NoLayers, recorded, Claimed, TypeOK, Layers, NoUsage, Working, Usages
    <2>2. Cardinality(Claimed') <= MAX_FILES_READ
      BY <2>1, FewerFiles DEF Reads
    <2> QED
      BY <2>1, <2>2
         DEF RefuseOutput, NoLayers, recorded, seen, Reads, TypeOK, Layers, NoUsage, Working
  <1>6. Numbers'
    BY DEF RefuseOutput, NoLayers, recorded, layers, inspect, seen, TypeOK, Layers, Requests,
           Numbers, NoUsage, Working, Allowance
  <1> QED
    BY <1>1, <1>2, <1>3, <1>4, <1>5, <1>6

LEMMA CheckpointStep == IInv /\ Checkpoint => IInv'
  <1> SUFFICES ASSUME IInv, Checkpoint PROVE IInv'
    OBVIOUS
  <1> USE LimitsAssumption, SizesAssumption DEF IInv
  <1>1. TypeOK'
    <2>1. result \in Usages /\ used \in Nat /\ toolsUsed \in Nat
      BY DEF TypeOK
    <2>2. used' \in 0 .. MAX_MODEL_REQUESTS
      BY <2>1 DEF Checkpoint, RecordPhase, Requests, TypeOK, Usages
    <2>3. toolsUsed' \in 0 .. MAX_TOOL_EXECUTIONS /\ filesRead' \subseteq Files
      BY <2>1 DEF Checkpoint, RecordInspection, Executions, TypeOK, Usages
    <2>4. result' \in Usages
      BY DEF Checkpoint, NoUsage, Usages
    <2> QED
      BY <2>1, <2>2, <2>3, <2>4
         DEF Checkpoint, recorded, layers, inspect, seen, TypeOK, Usages, Points
  <1>2. Layers'
    BY DEF Checkpoint, RecordPhase, RecordInspection, recorded, layers, inspect, seen, TypeOK,
           Layers, Requests, NoUsage, Working, Allowance
  <1>3. Requests'
    <2>1. used' = used + result.model_requests
      BY DEF Checkpoint, RecordPhase, Layers, TypeOK, Usages
    <2> QED
      BY <2>1 DEF Checkpoint, seen, TypeOK, Layers, Requests, Usages, NoUsage, Working
  <1>4. Executions'
    <2>1. toolsUsed' = toolsUsed + result.tool_executions
      BY DEF Checkpoint, RecordInspection, Layers, TypeOK, Usages
    <2> QED
      BY <2>1 DEF Checkpoint, seen, TypeOK, Layers, Executions, Usages, NoUsage, Working
  <1>5. Reads'
    BY DEF Checkpoint, RecordPhase, RecordInspection, recorded, layers, inspect, seen, TypeOK,
           Layers, Reads, Claimed, NoUsage, Working
  <1>6. Numbers'
    BY DEF Checkpoint, RecordPhase, RecordInspection, recorded, layers, inspect, seen, TypeOK,
           Layers, Requests, Numbers, NoUsage, Working, Allowance
  <1> QED
    BY <1>1, <1>2, <1>3, <1>4, <1>5, <1>6

LEMMA CrashStep == IInv /\ Crash => IInv'
  <1> SUFFICES ASSUME IInv, Crash PROVE IInv'
    OBVIOUS
  <1> USE LimitsAssumption, SizesAssumption DEF IInv
  <1>1. TypeOK'
    BY DEF Crash, NoLayers, recorded, layers, inspect, seen, TypeOK, Layers, Requests, Executions,
           Usages, NoUsage, Working, Points, Causes, Limits, Answers, Files, Allowance
  <1>2. Layers'
    BY DEF Crash, NoLayers, recorded, layers, inspect, seen, TypeOK, Layers, Requests, NoUsage,
           Working, Allowance
  <1>3. Requests'
    <2>1. used <= sent /\ sent' = sent /\ used' = used /\ result'.model_requests = 0 /\ pc' = "died"
      BY DEF Crash, Requests, TypeOK, Usages, recorded, seen, NoUsage
    <2> QED
      BY <2>1 DEF Requests, TypeOK, Working
  <1>4. Executions'
    <2>1. /\ toolsUsed <= ran /\ ran' = ran /\ toolsUsed' = toolsUsed
          /\ result'.tool_executions = 0 /\ pc' = "died"
      BY DEF Crash, Executions, TypeOK, Usages, recorded, seen, NoUsage
    <2> QED
      BY <2>1 DEF Executions, TypeOK, Working
  <1>5. Reads'
    <2>1. Claimed' \subseteq Claimed /\ Claimed \subseteq Files
      BY DEF Crash, NoLayers, recorded, Claimed, TypeOK, Layers, NoUsage, Working, Usages
    <2>2. Cardinality(Claimed') <= MAX_FILES_READ
      BY <2>1, FewerFiles DEF Reads
    <2> QED
      BY <2>1, <2>2 DEF Crash, NoLayers, recorded, seen, Reads, TypeOK, Layers, NoUsage, Working
  <1>6. Numbers'
    BY DEF Crash, NoLayers, recorded, layers, inspect, seen, TypeOK, Layers, Requests, Numbers,
           NoUsage, Working, Allowance
  <1> QED
    BY <1>1, <1>2, <1>3, <1>4, <1>5, <1>6

LEMMA AskStep == IInv /\ Ask => IInv'
  <1> SUFFICES ASSUME IInv, Ask PROVE IInv'
    OBVIOUS
  <1> USE LimitsAssumption, SizesAssumption DEF IInv
  <1>1. TypeOK'
    BY DEF Ask, recorded, layers, inspect, seen, TypeOK, Layers, Requests, Executions, Usages,
           NoUsage, Working, Points, Causes, Limits, Answers, Files, Allowance
  <1>2. Layers'
    BY DEF Ask, recorded, layers, inspect, seen, TypeOK, Layers, Requests, NoUsage, Working,
           Allowance
  <1>3. Requests'
    BY DEF Ask, recorded, layers, inspect, seen, TypeOK, Layers, Requests, NoUsage, Working,
           Allowance, Uncounted
  <1>4. Executions'
    BY DEF Ask, recorded, layers, inspect, seen, TypeOK, Layers, Executions, NoUsage, Working
  <1>5. Reads'
    BY DEF Ask, recorded, layers, inspect, seen, TypeOK, Layers, Reads, Claimed, NoUsage, Working
  <1>6. Numbers'
    BY DEF Ask, recorded, layers, inspect, seen, TypeOK, Layers, Requests, Numbers, NoUsage,
           Working, Allowance
  <1> QED
    BY <1>1, <1>2, <1>3, <1>4, <1>5, <1>6

LEMMA AcceptStep == IInv /\ Accept => IInv'
  <1> SUFFICES ASSUME IInv, Accept PROVE IInv'
    OBVIOUS
  <1> USE LimitsAssumption, SizesAssumption DEF IInv
  <1>1. TypeOK'
    BY DEF Accept, recorded, layers, inspect, seen, TypeOK, Layers, Requests, Executions, Usages,
           NoUsage, Working, Points, Causes, Limits, Answers, Files, Allowance
  <1>2. Layers'
    BY DEF Accept, recorded, layers, inspect, seen, TypeOK, Layers, Requests, NoUsage, Working,
           Allowance
  <1>3. Requests'
    BY DEF Accept, recorded, layers, inspect, seen, TypeOK, Layers, Requests, NoUsage, Working,
           Allowance, Uncounted
  <1>4. Executions'
    BY DEF Accept, recorded, layers, inspect, seen, TypeOK, Layers, Executions, NoUsage, Working
  <1>5. Reads'
    BY DEF Accept, recorded, layers, inspect, seen, TypeOK, Layers, Reads, Claimed, NoUsage,
           Working
  <1>6. Numbers'
    BY DEF Accept, recorded, layers, inspect, seen, TypeOK, Layers, Requests, Numbers, NoUsage,
           Working, Allowance
  <1> QED
    BY <1>1, <1>2, <1>3, <1>4, <1>5, <1>6

LEMMA CorrectStep == IInv /\ Correct => IInv'
  <1> SUFFICES ASSUME IInv, Correct PROVE IInv'
    OBVIOUS
  <1> USE LimitsAssumption, SizesAssumption DEF IInv
  <1>1. TypeOK'
    BY DEF Correct, recorded, layers, inspect, seen, TypeOK, Layers, Requests, Executions, Usages,
           NoUsage, Working, Points, Causes, Limits, Answers, Files, Allowance
  <1>2. Layers'
    BY DEF Correct, recorded, layers, inspect, seen, TypeOK, Layers, Requests, NoUsage, Working,
           Allowance
  <1>3. Requests'
    BY DEF Correct, recorded, layers, inspect, seen, TypeOK, Layers, Requests, NoUsage, Working,
           Allowance, Uncounted
  <1>4. Executions'
    BY DEF Correct, recorded, layers, inspect, seen, TypeOK, Layers, Executions, NoUsage, Working
  <1>5. Reads'
    BY DEF Correct, recorded, layers, inspect, seen, TypeOK, Layers, Reads, Claimed, NoUsage,
           Working
  <1>6. Numbers'
    BY DEF Correct, recorded, layers, inspect, seen, TypeOK, Layers, Requests, Numbers, NoUsage,
           Working, Allowance
  <1> QED
    BY <1>1, <1>2, <1>3, <1>4, <1>5, <1>6

LEMMA BeginTurnStep == IInv /\ BeginTurn => IInv'
  <1> SUFFICES ASSUME IInv, BeginTurn PROVE IInv'
    OBVIOUS
  <1> USE LimitsAssumption, SizesAssumption DEF IInv
  <1>1. TypeOK'
    BY DEF BeginTurn, recorded, layers, inspect, seen, TypeOK, Layers, Requests, Executions,
           Usages, NoUsage, Working, Points, Causes, Limits, Answers, Files, Allowance
  <1>2. Layers'
    BY DEF BeginTurn, recorded, layers, inspect, seen, TypeOK, Layers, Requests, NoUsage, Working,
           Allowance
  <1>3. Requests'
    BY DEF BeginTurn, recorded, layers, inspect, seen, TypeOK, Layers, Requests, NoUsage, Working,
           Allowance, Uncounted
  <1>4. Executions'
    BY DEF BeginTurn, recorded, layers, inspect, seen, TypeOK, Layers, Executions, NoUsage,
           Working
  <1>5. Reads'
    BY DEF BeginTurn, recorded, layers, inspect, seen, TypeOK, Layers, Reads, Claimed, NoUsage,
           Working
  <1>6. Numbers'
    BY DEF BeginTurn, recorded, layers, inspect, seen, TypeOK, Layers, Requests, Numbers, NoUsage,
           Working, Allowance
  <1> QED
    BY <1>1, <1>2, <1>3, <1>4, <1>5, <1>6

LEMMA SendStep == IInv /\ Send => IInv'
  <1> SUFFICES ASSUME IInv, Send PROVE IInv'
    OBVIOUS
  <1> USE LimitsAssumption, SizesAssumption DEF IInv
  <1>1. TypeOK'
    BY DEF Send, MaxTries, recorded, layers, inspect, seen, TypeOK, Layers, Requests, Executions,
           Usages, NoUsage, Working, Points, Causes, Limits, Answers, Files, Allowance
  <1>2. Layers'
    BY DEF Send, MaxTries, recorded, layers, inspect, seen, TypeOK, Layers, Requests, NoUsage,
           Working, Allowance
  <1>3. Requests'
    BY DEF Send, MaxTries, recorded, layers, inspect, seen, TypeOK, Layers, Requests, NoUsage,
           Working, Allowance, Uncounted
  <1>4. Executions'
    BY DEF Send, MaxTries, recorded, layers, inspect, seen, TypeOK, Layers, Executions, NoUsage,
           Working
  <1>5. Reads'
    BY DEF Send, MaxTries, recorded, layers, inspect, seen, TypeOK, Layers, Reads, Claimed,
           NoUsage, Working
  <1>6. Numbers'
    BY DEF Send, MaxTries, recorded, layers, inspect, seen, TypeOK, Layers, Requests, Numbers,
           NoUsage, Working, Allowance
  <1> QED
    BY <1>1, <1>2, <1>3, <1>4, <1>5, <1>6

LEMMA RetryStep == IInv /\ Retry => IInv'
  <1> SUFFICES ASSUME IInv, Retry PROVE IInv'
    OBVIOUS
  <1> USE LimitsAssumption, SizesAssumption DEF IInv
  <1>1. TypeOK'
    <2>1. log' \in Seq(Nat)
      BY DEF Retry, WriteTranscript, RequestNumber, TypeOK, Allowance
    <2> QED
      BY <2>1 DEF Retry, WriteTranscript, recorded, inspect, TypeOK, Working, Points, Answers
  <1>2. Layers'
    BY DEF Retry, WriteTranscript, RequestNumber, MaxTries, recorded, layers, inspect, seen,
           TypeOK, Layers, Requests, NoUsage, Working, Allowance
  <1>3. Requests'
    BY DEF Retry, WriteTranscript, RequestNumber, MaxTries, recorded, layers, inspect, seen,
           TypeOK, Layers, Requests, NoUsage, Working, Allowance, Uncounted
  <1>4. Executions'
    BY DEF Retry, WriteTranscript, RequestNumber, MaxTries, recorded, layers, inspect, seen,
           TypeOK, Layers, Executions, NoUsage, Working
  <1>5. Reads'
    BY DEF Retry, WriteTranscript, RequestNumber, MaxTries, recorded, layers, inspect, seen,
           TypeOK, Layers, Reads, Claimed, NoUsage, Working
  <1>6. Numbers'
    BY DEF Retry, WriteTranscript, RequestNumber, MaxTries, recorded, layers, inspect, seen,
           TypeOK, Layers, Requests, Numbers, NoUsage, Working, Allowance
  <1> QED
    BY <1>1, <1>2, <1>3, <1>4, <1>5, <1>6

LEMMA CallsArriveStep == IInv /\ CallsArrive => IInv'
  <1> SUFFICES ASSUME IInv, CallsArrive PROVE IInv'
    OBVIOUS
  <1> USE LimitsAssumption, SizesAssumption DEF IInv
  <1>1. TypeOK'
    BY DEF CallsArrive, WriteTranscript, RequestNumber, recorded, layers, inspect, seen, TypeOK,
           Layers, Requests, Executions, Usages, NoUsage, Working, Points, Causes, Limits,
           Answers, Files, Allowance
  <1>2. Layers'
    <2>1. requests' = requests + consumed /\ consumed >= 1 /\ requests + consumed <= Allowance
      BY DEF CallsArrive, WriteTranscript, Layers
    <2>2. Allowance' = Allowance
      BY DEF CallsArrive, recorded, Allowance
    <2> QED
      BY <2>1, <2>2 DEF CallsArrive, WriteTranscript, recorded, inspect, TypeOK, Layers, Working
  <1>3. Requests'
    BY DEF CallsArrive, WriteTranscript, RequestNumber, recorded, layers, inspect, seen, TypeOK,
           Layers, Requests, NoUsage, Working, Allowance, Uncounted
  <1>4. Executions'
    BY DEF CallsArrive, WriteTranscript, RequestNumber, recorded, layers, inspect, seen, TypeOK,
           Layers, Executions, NoUsage, Working
  <1>5. Reads'
    BY DEF CallsArrive, WriteTranscript, RequestNumber, recorded, layers, inspect, seen, TypeOK,
           Layers, Reads, Claimed, NoUsage, Working
  <1>6. Numbers'
    BY DEF CallsArrive, WriteTranscript, RequestNumber, recorded, layers, inspect, seen, TypeOK,
           Layers, Requests, Numbers, NoUsage, Working, Allowance
  <1> QED
    BY <1>1, <1>2, <1>3, <1>4, <1>5, <1>6

LEMMA OutputArrivesStep == IInv /\ OutputArrives => IInv'
  <1> SUFFICES ASSUME IInv, OutputArrives PROVE IInv'
    OBVIOUS
  <1> USE LimitsAssumption, SizesAssumption DEF IInv
  <1>1. TypeOK'
    BY DEF OutputArrives, WriteTranscript, RequestNumber, recorded, layers, inspect, seen, TypeOK,
           Layers, Requests, Executions, Usages, NoUsage, Working, Points, Causes, Limits,
           Answers, Files, Allowance
  <1>2. Layers'
    BY DEF OutputArrives, WriteTranscript, RequestNumber, recorded, layers, inspect, seen, TypeOK,
           Layers, Requests, NoUsage, Working, Allowance
  <1>3. Requests'
    BY DEF OutputArrives, WriteTranscript, RequestNumber, recorded, layers, inspect, seen, TypeOK,
           Layers, Requests, NoUsage, Working, Allowance, Uncounted
  <1>4. Executions'
    BY DEF OutputArrives, WriteTranscript, RequestNumber, recorded, layers, inspect, seen, TypeOK,
           Layers, Executions, NoUsage, Working
  <1>5. Reads'
    BY DEF OutputArrives, WriteTranscript, RequestNumber, recorded, layers, inspect, seen, TypeOK,
           Layers, Reads, Claimed, NoUsage, Working
  <1>6. Numbers'
    BY DEF OutputArrives, WriteTranscript, RequestNumber, recorded, layers, inspect, seen, TypeOK,
           Layers, Requests, Numbers, NoUsage, Working, Allowance
  <1> QED
    BY <1>1, <1>2, <1>3, <1>4, <1>5, <1>6

LEMMA EndTurnStep == IInv /\ EndTurn => IInv'
  <1> SUFFICES ASSUME IInv, EndTurn PROVE IInv'
    OBVIOUS
  <1> USE LimitsAssumption, SizesAssumption DEF IInv
  <1>1. TypeOK'
    BY DEF EndTurn, recorded, layers, inspect, seen, TypeOK, Layers, Requests, Executions, Usages,
           NoUsage, Working, Points, Causes, Limits, Answers, Files, Allowance
  <1>2. Layers'
    BY DEF EndTurn, recorded, layers, inspect, seen, TypeOK, Layers, Requests, NoUsage, Working,
           Allowance
  <1>3. Requests'
    BY DEF EndTurn, recorded, layers, inspect, seen, TypeOK, Layers, Requests, NoUsage, Working,
           Allowance, Uncounted
  <1>4. Executions'
    BY DEF EndTurn, recorded, layers, inspect, seen, TypeOK, Layers, Executions, NoUsage, Working
  <1>5. Reads'
    BY DEF EndTurn, recorded, layers, inspect, seen, TypeOK, Layers, Reads, Claimed, NoUsage,
           Working
  <1>6. Numbers'
    BY DEF EndTurn, recorded, layers, inspect, seen, TypeOK, Layers, Requests, Numbers, NoUsage,
           Working, Allowance
  <1> QED
    BY <1>1, <1>2, <1>3, <1>4, <1>5, <1>6

-----------------------------------------------------------------------------
(* Tool calls *)

LEMMA NothingFits == IInv => Fits({})
  <1> SUFFICES ASSUME IInv PROVE Fits({})
    OBVIOUS
  <1>1. Claimed \subseteq Files /\ Known \cup {} \subseteq Claimed
    BY DEF IInv, TypeOK, Usages, Claimed, Known
  <1> QED
    BY <1>1, FewerFiles, LimitsAssumption DEF IInv, Reads, Fits

LEMMA ExecutedStep ==
    ASSUME IInv, NEW t \in {0, 1}, NEW S \in SUBSET Files, NEW D \in SUBSET S,
           Executed(t, S, D), t = 1 => ToolBudgetLeft, Fits(S)
    PROVE  IInv'
  <1> USE LimitsAssumption, SizesAssumption DEF IInv
  <1>1. TypeOK'
    BY DEF Executed, ToolBudgetLeft, recorded, TypeOK, Layers, Executions
  <1>2. Layers'
    BY DEF Executed, recorded, TypeOK, Layers, Working, Allowance
  <1>3. Requests'
    BY DEF Executed, recorded, TypeOK, Layers, Requests, NoUsage, Working
  <1>4. Executions'
    BY DEF Executed, ToolBudgetLeft, recorded, TypeOK, Layers, Executions, NoUsage, Working
  <1>5. Reads'
    <2>1. result.files_read = {} /\ result' = result
      BY DEF Executed, Layers, NoUsage
    <2>2. Claimed' = Known \cup S /\ Claimed' \subseteq Files
      BY <2>1 DEF Executed, recorded, Claimed, Known, TypeOK
    <2>3. shown' \subseteq Claimed'
      BY <2>1 DEF Executed, recorded, Claimed, Reads, Working
    <2>4. Cardinality(shown') <= MAX_FILES_READ /\ Cardinality(Claimed') <= MAX_FILES_READ
      BY <2>2, <2>3, FewerFiles DEF Fits
    <2> QED
      BY <2>3, <2>4 DEF Executed, Reads, Working
  <1>6. Numbers'
    BY DEF Executed, recorded, TypeOK, Numbers, Working
  <1> QED
    BY <1>1, <1>2, <1>3, <1>4, <1>5, <1>6

\* A call that breaks the phase off has claimed t executions and the files S.
LEMMA BrokenStep ==
    ASSUME IInv, NEW why \in {"limit_tools", "limit_files", "escaped"}, NEW n \in Nat,
           NEW t \in {0, 1}, NEW S \in SUBSET Files, Broken(why, n, t, S),
           t = 1 => ToolBudgetLeft, Fits(S),
           n = reqs + requests \/ (why = "escaped" /\ n = reqs + 1),
           why = "limit_tools" => ~ToolBudgetLeft,
           why = "limit_files" => Cardinality(Known \cup S) = MAX_FILES_READ
    PROVE  IInv'
  <1> USE LimitsAssumption, SizesAssumption DEF IInv
  <1> DEFINE fs == files \cup (S \ filesRead)
  <1>1. pc \in Working /\ Stop(why, n, tools + t, fs) /\ tools + t \in Nat /\ fs \in SUBSET Files
    BY DEF Broken, Working, TypeOK
  <1>2. /\ sent' = sent /\ sent \in Nat /\ sent <= MAX_MODEL_REQUESTS /\ used + n <= sent
        /\ why \notin Uncounted => used + n = sent
    BY DEF Broken, Uncounted, TypeOK, Layers, Requests, Working
  <1>3. /\ ran' \in Nat /\ ran' <= MAX_TOOL_EXECUTIONS /\ toolsUsed + (tools + t) = ran'
        /\ why = "limit_tools" => ran' = MAX_TOOL_EXECUTIONS
    BY DEF Broken, ToolBudgetLeft, TypeOK, Executions, Working
  <1>4. filesRead \cup fs = Known \cup S /\ shown' = shown /\ shown \subseteq filesRead \cup fs
    BY DEF Broken, Known, Reads, Claimed, Layers, NoUsage, Working
  <1>5. log' = log /\ log \in Seq(Nat) /\ (\A k \in DOMAIN log : log[k] = k)
        /\ sent \in Len(log) .. Len(log) + 1
    BY DEF Broken, TypeOK, Numbers
  <1>6. why \in Causes /\ why # "limit_requests" /\ why # "storage"
    BY DEF Causes, Limits
  <1>7. Cardinality(filesRead \cup fs) <= MAX_FILES_READ
    BY <1>4 DEF Fits
  <1> HIDE DEF fs
  <1> QED
    BY <1>1, <1>2, <1>3, <1>4, <1>5, <1>6, <1>7, StopStep

LEMMA ToolStep == IInv /\ (Tool \/ ToolEscapes) => IInv'
  <1> SUFFICES ASSUME IInv, Tool \/ ToolEscapes PROVE IInv'
    OBVIOUS
  <1> USE SizesAssumption
  <1>0. reqs \in Nat /\ requests \in Nat /\ Fits({})
    BY NothingFits DEF IInv, TypeOK
  <1>1. CASE UnknownTool
    BY <1>0, <1>1, ExecutedStep DEF UnknownTool
  <1>2. CASE ToolRefused
    BY <1>0, <1>2, BrokenStep DEF ToolRefused
  <1>3. CASE NoFileCall
    BY <1>0, <1>3, ExecutedStep DEF NoFileCall
  <1>4. CASE ReadFile
    <2>1. PICK f \in Files :
            \/ Fits({f}) /\ (Executed(1, {f}, {f}) \/ Executed(1, {f}, {}))
            \/ Refuses({}, f) /\ Broken("limit_files", reqs + requests, 1, {})
      BY <1>4 DEF ReadFile
    <2>2. ToolBudgetLeft
      BY <1>4 DEF ReadFile
    <2>3. CASE Fits({f}) /\ (Executed(1, {f}, {f}) \/ Executed(1, {f}, {}))
      BY <2>2, <2>3, ExecutedStep
    <2>4. CASE Refuses({}, f) /\ Broken("limit_files", reqs + requests, 1, {})
      BY <1>0, <2>2, <2>4, BrokenStep DEF Refuses
    <2> QED
      BY <2>1, <2>3, <2>4
  <1>5. CASE SearchCode
    <2>1. PICK k \in 0 .. NFiles :
            \/ Fits(1 .. k) /\ \E D \in SUBSET (1 .. k) : Executed(1, 1 .. k, D)
            \/ /\ k < NFiles /\ Refuses(1 .. k, k + 1)
               /\ Broken("limit_files", reqs + requests, 1, 1 .. k)
      BY <1>5 DEF SearchCode
    <2>2. ToolBudgetLeft
      BY <1>5 DEF SearchCode
    <2>3. 1 .. k \in SUBSET Files
      BY DEF Files
    <2>4. ASSUME Fits(1 .. k), NEW D \in SUBSET (1 .. k), Executed(1, 1 .. k, D) PROVE IInv'
      BY <2>2, <2>3, <2>4, ExecutedStep
    <2>5. CASE Refuses(1 .. k, k + 1) /\ Broken("limit_files", reqs + requests, 1, 1 .. k)
      <3>1. Cardinality(Known \cup (1 .. k)) = MAX_FILES_READ /\ Fits(1 .. k)
        BY <2>5, LimitsAssumption DEF Refuses, Fits
      <3> QED
        BY <1>0, <2>2, <2>3, <2>5, <3>1, BrokenStep
    <2> QED
      BY <2>1, <2>4, <2>5
  <1>6. CASE ToolEscapes
    <2>1. PICK S \in SUBSET Files : Fits(S) /\ Broken("escaped", reqs + 1, 1, S)
      BY <1>6 DEF ToolEscapes, Files
    <2>2. ToolBudgetLeft
      BY <1>6 DEF ToolEscapes
    <2> QED
      BY <1>0, <2>1, <2>2, BrokenStep
  <1> QED
    BY <1>1, <1>2, <1>3, <1>4, <1>5, <1>6 DEF Tool

-----------------------------------------------------------------------------
(* Failures of the other layers *)

LEMMA FailStep ==
    ASSUME IInv, pc \in Working, NEW why \in {"limit_requests", "invalid", "provider",
                                              "transcript", "escaped"},
           NEW n \in Nat, Fail(why, n), ran' = ran, shown' = shown,
           sent' \in Nat, sent' <= MAX_MODEL_REQUESTS, used + n <= sent',
           why # "escaped" => used + n = sent',
           why = "limit_requests" => sent' = MAX_MODEL_REQUESTS,
           log' \in Seq(Nat), \A k \in DOMAIN log' : log'[k] = k,
           sent' \in Len(log') .. Len(log') + 1
    PROVE  IInv'
  <1> USE LimitsAssumption DEF IInv
  <1>1. Stop(why, n, tools, files) /\ tools \in Nat /\ files \in SUBSET Files /\ why \in Causes
    BY DEF Fail, TypeOK, Causes, Limits
  <1>2. ran' \in Nat /\ ran' <= MAX_TOOL_EXECUTIONS /\ toolsUsed + tools = ran'
    BY DEF TypeOK, Executions
  <1>3. filesRead \cup files = Claimed /\ shown \subseteq filesRead \cup files
    BY DEF Claimed, Reads, Layers, NoUsage, Working
  <1>4. Cardinality(filesRead \cup files) <= MAX_FILES_READ
    BY <1>3 DEF Reads
  <1> QED
    BY <1>1, <1>2, <1>3, <1>4, StopStep DEF Uncounted

LEMMA StorageStep ==
    ASSUME IInv, pc \in Working \cup {"died"}, FailStorage, UNCHANGED seen
    PROVE  IInv'
  <1> USE LimitsAssumption DEF IInv
  <1>1. Stop("storage", 0, 0, {}) /\ "storage" \in Causes /\ "storage" \in Uncounted
    BY DEF FailStorage, Causes, Uncounted
  <1>2. /\ sent' = sent /\ sent \in Nat /\ sent <= MAX_MODEL_REQUESTS
        /\ used <= sent /\ used \in Nat
        /\ ran' = ran /\ ran \in Nat /\ ran <= MAX_TOOL_EXECUTIONS /\ toolsUsed <= ran
        /\ toolsUsed \in Nat /\ shown' = shown
    BY DEF seen, TypeOK, Requests, Executions, Usages
  <1>3. log' = log /\ log \in Seq(Nat) /\ (\A k \in DOMAIN log : log[k] = k)
        /\ sent \in Len(log) .. Len(log) + 1
    BY DEF seen, TypeOK, Numbers
  <1>4. Cardinality(filesRead \cup {}) <= MAX_FILES_READ
    <2>1. filesRead \cup {} \subseteq Claimed /\ Claimed \subseteq Files
      BY DEF Claimed, TypeOK, Usages
    <2> QED
      BY <2>1, FewerFiles DEF Reads
  <1> QED
    BY <1>1, <1>2, <1>3, <1>4, StopStep

LEMMA FailuresStep ==
    IInv /\ (\/ AskRefused \/ GiveUp \/ OutOfTurns \/ Unavailable \/ SendEscapes \/ RecordFails
             \/ RefusePhase \/ PersistFails \/ Resume) => IInv'
  <1> SUFFICES ASSUME IInv,
                      \/ AskRefused \/ GiveUp \/ OutOfTurns \/ Unavailable \/ SendEscapes
                      \/ RecordFails \/ RefusePhase \/ PersistFails \/ Resume
               PROVE  IInv'
    OBVIOUS
  <1> USE LimitsAssumption
  <1>0. /\ used \in Nat /\ reqs \in Nat /\ requests \in Nat /\ consumed \in Nat
        /\ sent \in Nat /\ sent <= MAX_MODEL_REQUESTS
        /\ pc \in Working => sent = used + reqs + requests + consumed
        /\ log \in Seq(Nat) /\ (\A k \in DOMAIN log : log[k] = k)
        /\ sent \in Len(log) .. Len(log) + 1
    BY DEF IInv, TypeOK, Requests, Numbers
  <1>1. CASE AskRefused
    BY <1>0, <1>1, FailStep DEF AskRefused, seen, Working, IInv, Layers, Allowance
  <1>2. CASE GiveUp
    BY <1>0, <1>2, FailStep DEF GiveUp, seen, Working, IInv, Layers
  <1>3. CASE OutOfTurns
    BY <1>0, <1>3, FailStep DEF OutOfTurns, seen, Working, IInv, Layers, Allowance
  <1>4. CASE Unavailable
    <2>1. /\ log' \in Seq(Nat) /\ (\A k \in DOMAIN log' : log'[k] = k)
          /\ sent \in Len(log') .. Len(log') + 1
      <3>1. log' = Append(log, sent) /\ Len(log) + 1 = sent
        BY <1>0, <1>4 DEF Unavailable, WriteTranscript, RequestNumber, IInv, Numbers, Allowance,
                          Working
      <3> QED
        BY <1>0, <3>1
    <2>2. /\ pc \in Working /\ Fail("provider", reqs + requests + consumed)
          /\ ran' = ran /\ shown' = shown /\ sent' = sent
      BY <1>4 DEF Unavailable, WriteTranscript, Working
    <2>3. reqs + requests + consumed \in Nat /\ used + (reqs + requests + consumed) = sent
      BY <1>0, <2>2
    <2> QED
      BY <1>0, <2>1, <2>2, <2>3, FailStep
  <1>5. CASE SendEscapes
    <2>1. /\ used + reqs + requests + consumed < MAX_MODEL_REQUESTS
          /\ Len(log) = sent
      BY <1>0, <1>5 DEF SendEscapes, IInv, Layers, Numbers, Allowance, Working
    <2>2. /\ pc \in Working /\ Fail("escaped", reqs + 1)
          /\ ran' = ran /\ shown' = shown /\ sent' = sent + 1 /\ log' = log
      BY <1>5 DEF SendEscapes, Working
    <2>3. /\ reqs + 1 \in Nat /\ used + (reqs + 1) <= sent'
          /\ sent' \in Nat /\ sent' <= MAX_MODEL_REQUESTS
      BY <1>0, <2>1, <2>2
    <2>4. sent' \in Len(log') .. Len(log') + 1
      BY <1>0, <2>1, <2>2
    <2> QED
      BY <1>0, <2>2, <2>3, <2>4, FailStep
  <1>6. CASE RecordFails
    <2>1. /\ pc \in Working /\ Fail("transcript", reqs + requests + consumed)
          /\ ran' = ran /\ shown' = shown /\ sent' = sent /\ log' = log
      BY <1>6 DEF RecordFails, seen, Working
    <2>2. reqs + requests + consumed \in Nat /\ used + (reqs + requests + consumed) = sent
      BY <1>0, <2>1
    <2> QED
      BY <1>0, <2>1, <2>2, FailStep
  <1>7. CASE RefusePhase
    BY <1>7, StorageStep DEF RefusePhase, Working
  <1>8. CASE PersistFails
    BY <1>8, StorageStep DEF PersistFails, Working
  <1>9. CASE Resume
    BY <1>9, StorageStep DEF Resume
  <1> QED
    BY <1>1, <1>2, <1>3, <1>4, <1>5, <1>6, <1>7, <1>8, <1>9

-----------------------------------------------------------------------------
LEMMA InitIInv == Init => IInv
  <1> SUFFICES ASSUME Init PROVE IInv
    OBVIOUS
  <1>1. Cardinality({}) = 0
    BY FS_EmptySet
  <1>2. filesRead \cup files \cup result.files_read = {} /\ shown = {}
    BY DEF Init, NoUsage
  <1> QED
    BY <1>1, <1>2, LimitsAssumption, SizesAssumption
    DEF Init, IInv, TypeOK, Layers, Requests, Executions, Reads, Claimed, Numbers, Usages, NoUsage,
        Working, Points, Answers, Files, Uncounted

LEMMA NextIInv == IInv /\ [Next]_vars => IInv'
  <1>1. ASSUME IInv, UNCHANGED vars PROVE IInv'
    <2> USE <1>1 DEF vars, recorded, layers, inspect, seen, IInv
    <2>1. TypeOK'
      BY DEF TypeOK
    <2>2. Layers'
      BY DEF Layers, Allowance
    <2>3. Requests' /\ Executions'
      BY DEF Requests, Executions
    <2>4. Reads' /\ Numbers'
      BY DEF Reads, Claimed, Numbers
    <2> QED
      BY <2>1, <2>2, <2>3, <2>4
  <1>2. IInv /\ Next => IInv'
    BY StartPhaseStep, PersistStep, RefuseOutputStep, CheckpointStep, CrashStep, AskStep,
       AcceptStep, CorrectStep, BeginTurnStep, SendStep, RetryStep, CallsArriveStep,
       OutputArrivesStep, EndTurnStep, ToolStep, FailuresStep
    DEF Next, Work, Host, Typed, Turn, Fault
  <1> QED
    BY <1>1, <1>2

LEMMA Invariance == Spec => []IInv
  <1> QED
    BY InitIInv, NextIInv, PTL DEF Spec

(***************************************************************************)
(* The theorems.                                                           *)
(***************************************************************************)

\* Every counter of every layer stays within its budget.
THEOREM BudgetTyped == Spec => []TypeOK
  <1>1. IInv => TypeOK
    BY DEF IInv
  <1> QED
    BY <1>1, Invariance, PTL

\* gemini.py, model_output.py and the three phases never send more than
\* MAX_MODEL_REQUESTS between them, and the inspectors of all the phases keep to
\* the Run's tool and file limits.
THEOREM LimitsAreKept == Spec => []LimitsKept
  <1>1. IInv => LimitsKept
    BY DEF IInv, Requests, Executions, Reads, Claimed, LimitsKept
  <1> QED
    BY <1>1, Invariance, PTL

\* Between phases, and at the end of a Run whose failure carried its counters,
\* the recorded requests are those that were sent; they are never more.
THEOREM UsageIsActual == Spec => []RequestsAccounted
  <1>1. IInv => RequestsAccounted
    BY DEF IInv, TypeOK, Layers, Requests, Usages, NoUsage, Uncounted, RequestsAccounted, Settled,
           Accounted
  <1> QED
    BY <1>1, Invariance, PTL

\* The recorded tool executions are those that ran, and every file the model
\* was given is recorded, unless the counters themselves could not be stored.
THEOREM InspectionIsActual == Spec => []InspectionAccounted
  <1>1. ASSUME IInv, Settled, cause # "storage" PROVE toolsUsed = ran /\ shown \subseteq filesRead
    <2>1. CASE pc = "ready"
      BY <1>1, <2>1 DEF IInv, TypeOK, Layers, Executions, Reads, Claimed, NoUsage, Working
    <2>2. CASE pc = "ended"
      BY <1>1, <2>2 DEF IInv, Executions, Reads
    <2> QED
      BY <1>1, <2>1, <2>2 DEF Settled
  <1>2. IInv => InspectionAccounted
    BY <1>1 DEF InspectionAccounted
  <1> QED
    BY <1>2, Invariance, PTL

\* A Run is ended for a limit only when that limit has been used up.
THEOREM LimitsAreReal == Spec => []LimitMeansSpent
  <1>1. IInv => LimitMeansSpent
    BY DEF IInv, Requests, Executions, Reads, LimitMeansSpent, Uncounted
  <1> QED
    BY <1>1, Invariance, PTL

\* The transcripts number the Run's requests without a gap or a repetition.
THEOREM NumbersAreOrdinals == Spec => []TranscriptsNumbered
  <1>1. IInv => TranscriptsNumbered
    BY DEF IInv, Numbers, TranscriptsNumbered
  <1> QED
    BY <1>1, Invariance, PTL

(***************************************************************************)
(* The Run implements RequestBudget: a request is a Send, the checkpoint   *)
(* of a phase is a Bill or, when the Run ends with it, a Close.            *)
(***************************************************************************)
LEMMA StepsKeepBudget == IInv /\ [Next]_vars => [Budget!Next]_(Budget!vars)
  <1> SUFFICES ASSUME IInv, [Next]_vars PROVE [Budget!Next]_(Budget!vars)
    OBVIOUS
  <1> USE LimitsAssumption DEF Budget!vars
  <1>1. CASE Send \/ SendEscapes
    <2>1. used' = used /\ sent' = sent + 1 /\ pc # "ended" /\ pc' # "ended"
      BY <1>1 DEF Send, SendEscapes, Fail, Stop, recorded
    <2>2. sent < MAX_MODEL_REQUESTS
      BY <1>1 DEF Send, SendEscapes, IInv, TypeOK, Layers, Requests, Allowance, Working
    <2> QED
      BY <2>1, <2>2 DEF Budget!Next, Budget!Send
  <1>2. CASE Checkpoint
    <2>1. /\ used' = used + result.model_requests /\ sent' = sent /\ pc # "ended"
          /\ result.model_requests \in Nat /\ used \in Nat /\ sent \in Nat
      BY <1>2 DEF Checkpoint, RecordPhase, seen, IInv, Layers, TypeOK, Usages
    <2>2. CASE pc' = "ended"
      BY <2>1, <2>2 DEF IInv, Requests, Budget!Next, Budget!Close
    <2>3. CASE pc' # "ended"
      <3>1. pc = "persisted"
        BY <1>2, <2>3 DEF Checkpoint, IInv, Layers
      <3>2. used' = sent
        BY <2>1, <3>1 DEF IInv, Requests
      <3> QED
        BY <2>1, <2>3, <3>2 DEF Budget!Next, Budget!Bill
    <2> QED
      BY <2>2, <2>3
  <1>3. ASSUME Next, ~Send, ~SendEscapes, ~Checkpoint PROVE UNCHANGED <<sent, used, pc = "ended">>
    <2>1. CASE StartPhase \/ Resume
      BY <2>1 DEF StartPhase, Resume, FailStorage, Stop, recorded, seen
    <2>2. CASE Persist \/ RefuseOutput \/ RefusePhase \/ PersistFails \/ RecordFails \/ Crash
      BY <2>2 DEF Persist, RefuseOutput, RefusePhase, PersistFails, RecordFails, Crash, Fail,
                  FailStorage, Stop, recorded, seen, Working
    <2>3. CASE Typed
      BY <2>3 DEF Typed, Ask, AskRefused, Accept, Correct, GiveUp, Fail, Stop, recorded, seen
    <2>4. CASE BeginTurn \/ OutOfTurns \/ Retry \/ Unavailable \/ CallsArrive \/ OutputArrives
               \/ EndTurn
      BY <2>4 DEF BeginTurn, OutOfTurns, Retry, Unavailable, CallsArrive, OutputArrives, EndTurn,
                  WriteTranscript, Fail, Stop, recorded, seen
    <2>5. CASE Tool \/ ToolEscapes
      BY <2>5 DEF Tool, UnknownTool, ToolRefused, NoFileCall, ReadFile, SearchCode, ToolEscapes,
                  Executed, Broken, Stop, recorded
    <2> QED
      BY <1>3, <2>1, <2>2, <2>3, <2>4, <2>5 DEF Next, Work, Host, Turn, Fault
  <1>4. CASE UNCHANGED vars
    BY <1>4 DEF vars, recorded, seen
  <1> QED
    BY <1>1, <1>2, <1>3, <1>4

\* The Run keeps the request budget it promises, for every ceiling.
THEOREM BudgetIsKept == Spec => KeepsBudget
  <1>1. Init => Budget!Init
    BY DEF Init, Budget!Init
  <1> QED
    BY <1>1, StepsKeepBudget, Invariance, PTL DEF Spec, KeepsBudget, Budget!Spec

\* The bound at each point, before and after a step.
LEMMA StepsLeftAt ==
    /\ pc = "persist" => StepsLeft = 0
    /\ pc = "send" => StepsLeft = 1
    /\ pc = "turn" => StepsLeft = 2
    /\ pc = "schema" => StepsLeft = 3
    /\ pc = "validate" => StepsLeft = 4
    /\ pc = "tools" => StepsLeft = 3 + calls
    /\ pc = "record" => StepsLeft = 4 + MaxCalls
    /\ pc' = "persist" => StepsLeft' = 0
    /\ pc' = "send" => StepsLeft' = 1
    /\ pc' = "turn" => StepsLeft' = 2
    /\ pc' = "schema" => StepsLeft' = 3
    /\ pc' = "validate" => StepsLeft' = 4
    /\ pc' = "tools" => StepsLeft' = 3 + calls'
    /\ pc' = "record" => StepsLeft' = 4 + MaxCalls
  BY DEF StepsLeft

\* The loops of the three layers: within a phase only a request that is sent leaves
\* more to do, and it is one of those the Run had left; so a phase ends, whatever
\* the model answers and the tools return, which is what PhaseEnds rests on.
THEOREM PhasesGoForward == Spec => PhasesAdvance
<1> DEFINE Forward ==
             (pc \in Working /\ pc' \in Working) =>
                \/ Fewer(RequestsLeft', RequestsLeft)
                \/ UNCHANGED RequestsLeft /\ Fewer(StepsLeft', StepsLeft)
<1>1. IInv /\ [Next]_vars => [Forward]_vars
  <2> SUFFICES ASSUME IInv, Next, pc \in Working, pc' \in Working
               PROVE  \/ Fewer(RequestsLeft', RequestsLeft)
                      \/ UNCHANGED RequestsLeft /\ Fewer(StepsLeft', StepsLeft)
    OBVIOUS
  <2> USE LimitsAssumption, SizesAssumption, StepsLeftAt
          DEF IInv, TypeOK, Layers, RequestsLeft, Fewer, recorded, layers, inspect
  <2>1. CASE Ask \/ Accept \/ Correct
    <3>1. UNCHANGED RequestsLeft
      BY <2>1 DEF Ask, Accept, Correct
    <3>2. Fewer(StepsLeft', StepsLeft)
      BY <2>1 DEF Ask, Accept, Correct
    <3> QED
      BY <3>1, <3>2
  <2>2. CASE BeginTurn \/ EndTurn
    <3>1. UNCHANGED RequestsLeft
      BY <2>2 DEF BeginTurn, EndTurn
    <3>2. Fewer(StepsLeft', StepsLeft)
      BY <2>2 DEF BeginTurn, EndTurn
    <3> QED
      BY <3>1, <3>2
  <2>3. CASE Send
    BY <2>3 DEF Send, Allowance
  <2>4. CASE Retry
    BY <2>4 DEF Retry, WriteTranscript
  <2>5. CASE CallsArrive
    <3>1. UNCHANGED RequestsLeft
      BY <2>5 DEF CallsArrive
    <3>2. StepsLeft = 4 + MaxCalls /\ StepsLeft' = 3 + calls' /\ calls' \in 1 .. MaxCalls
      BY <2>5 DEF CallsArrive, WriteTranscript
    <3>3. \A m \in Nat : \A k \in 1 .. m : Fewer(3 + k, 4 + m)
      OBVIOUS
    <3>4. Fewer(StepsLeft', StepsLeft)
      BY <3>2, <3>3
    <3> QED
      BY <3>1, <3>4
  <2>6. CASE OutputArrives
    BY <2>6 DEF OutputArrives, WriteTranscript
  <2>7. ASSUME NEW t, NEW S, NEW D, Executed(t, S, D)
        PROVE  UNCHANGED RequestsLeft /\ Fewer(StepsLeft', StepsLeft)
    BY <2>7 DEF Executed
  <2>8. CASE Tool \/ ToolEscapes
    BY <2>7, <2>8 DEF Tool, ToolEscapes, UnknownTool, ToolRefused, NoFileCall, ReadFile, SearchCode,
                      Broken, Stop, Working
  <2>9. CASE \/ AskRefused \/ GiveUp \/ OutOfTurns \/ Unavailable \/ SendEscapes \/ RecordFails
             \/ RefusePhase \/ PersistFails \/ Resume
    BY <2>9 DEF AskRefused, GiveUp, OutOfTurns, Unavailable, SendEscapes, RecordFails, RefusePhase,
                PersistFails, Resume, Fail, FailStorage, Stop, Working
  <2>10. CASE StartPhase \/ Persist \/ RefuseOutput \/ Checkpoint \/ Crash
    BY <2>10 DEF StartPhase, Persist, RefuseOutput, Checkpoint, Crash, Working
  <2> QED
    BY <2>1, <2>2, <2>3, <2>4, <2>5, <2>6, <2>8, <2>9, <2>10
       DEF Next, Work, Host, Typed, Turn, Fault
<1> QED
  BY <1>1, Invariance, PTL DEF Spec, PhasesAdvance
=============================================================================
