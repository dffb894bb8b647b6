------------------------------ MODULE AipProofs ------------------------------
(***************************************************************************)
(* Proofs about AipCopy, for any number of callers and killed workers, any *)
(* replica and either behaviour of urllib3.                                *)
(***************************************************************************)
EXTENDS AipCopy, TLAPS

(* A step of one caller changes only its own point in the program. *)
LEMMA OwnStep ==
  ASSUME TypeOK, NEW w \in Caller, CopyAipToWasabi(w)
  PROVE  \A v \in Caller : v # w => pc'[v] = pc[v] /\ route'[v] = route[v]
                                    /\ seen'[v] = seen[v] /\ sent'[v] = sent[v]
<1> DEFINE Others == \A v \in Caller : v # w => pc'[v] = pc[v] /\ route'[v] = route[v]
                                              /\ seen'[v] = seen[v] /\ sent'[v] = sent[v]
<1>1. CASE LookUp(w)
  BY <1>1 DEF LookUp, Reply, Exit, Goto, TypeOK
<1>2. CASE Probe(w)
  BY <1>2 DEF Probe, Reply, Exit, Goto, local, TypeOK
<1>3. CASE Delete(w)
  BY <1>3 DEF Delete, Reply, Exit, Goto, local, TypeOK
<1>4. CASE Manifest(w)
  BY <1>4 DEF Manifest, Reply, Exit, Goto, TypeOK
<1>5. CASE Seed(w)
  BY <1>5 DEF Seed, Goto, local, TypeOK
<1>6. CASE Open(w)
  BY <1>6 DEF Open, Reply, Exit, Settle, Goto, local, TypeOK
<1>7. CASE Upload(w)
  BY <1>7 DEF Upload, Settle, Goto, TypeOK
<1>8. CASE WriteProgress(w)
  BY <1>8 DEF WriteProgress, local, TypeOK
<1>9. CASE Verify(w)
  BY <1>9 DEF Verify, Settle, Goto, TypeOK
<1>10. CASE CleanUp(w)
  BY <1>10 DEF CleanUp, Settle, Goto, TypeOK
<1>11. CASE Finish(w)
  BY <1>11 DEF Finish, Reply, Exit, Goto, TypeOK
<1>12. CASE ResolveKeyAndSize(w)
  BY <1>12 DEF ResolveKeyAndSize, Reply, Exit, Goto, TypeOK
<1> QED BY <1>1, <1>2, <1>3, <1>4, <1>5, <1>6, <1>7, <1>8, <1>9, <1>10, <1>11, <1>12
        DEF CopyAipToWasabi

-----------------------------------------------------------------------------
(* Types *)

(* Every variable keeps its type under every step of a copy. *)
LEMMA CopyTypeStep ==
  ASSUME AipAssumption, TypeOK, NEW w \in Caller, CopyAipToWasabi(w)
  PROVE  TypeOK'
<1>l. /\ Label = {"idle", "lookup", "probe", "delete", "manifest", "open", "seed", "upload",
                  "verify", "cleanup", "finish"}
      /\ Object = {"none", "good", "bad", "short"}
  BY DEF Label, Streaming, Object, Content
<1>s. Start(w) \in Label
  BY <1>l DEF Start
<1>1. CASE LookUp(w)
  <2>1. CASE Reply(w, "failed")
    BY <1>1, <2>1, <1>l DEF LookUp, Reply, Exit, Goto, TypeOK, world, store, past, Answer
  <2>2. CASE /\ route' = [route EXCEPT ![w] = "dc"]
             /\ UNCHANGED <<pc, known, sent, verdict, ans, seen>>
    BY <1>1, <2>2 DEF LookUp, TypeOK, world, store, past
  <2>3. CASE /\ \E k \in BOOLEAN : known' = [known EXCEPT ![w] = k]
             /\ Goto(w, "probe") /\ UNCHANGED <<route, sent, verdict, ans, seen>>
    <3>1. known' \in [Caller -> BOOLEAN]
      BY <2>3, Zenon DEF TypeOK
    <3> QED BY <1>1, <2>3, <3>1, <1>l DEF LookUp, Goto, TypeOK, world, store, past
  <2> QED BY <1>1, <2>1, <2>2, <2>3, Zenon DEF LookUp
<1>2. CASE Probe(w)
  <2>1. CASE \E a \in {"ok", "failed"} : Reply(w, a)
    BY <1>2, <2>1, <1>l
       DEF Probe, Reply, Exit, Goto, TypeOK, world, store, local, past, Answer
  <2>2. CASE \A a \in {"ok", "failed"} : ~Reply(w, a)
    <3>1. /\ Goto(w, Start(w)) \/ Goto(w, "delete")
          /\ seen' = [seen EXCEPT ![w] = obj]
          /\ UNCHANGED <<world, store, local, ans, progress, past>>
      BY <1>2, <2>2 DEF Probe
    <3> QED BY <3>1, <1>l, <1>s DEF Goto, TypeOK, world, store, local, past
  <2> QED BY <2>1, <2>2
<1>3. CASE Delete(w)
  <2>1. CASE Reply(w, "failed")
    BY <1>3, <2>1, <1>l
       DEF Delete, Place, Reply, Exit, Goto, TypeOK, world, store, local, past, Answer
  <2>2. CASE ~Reply(w, "failed")
    <3>1. Place(w, "none") /\ Goto(w, Start(w)) /\ UNCHANGED <<local, ans, seen>>
      BY <1>3, <2>2, Zenon DEF Delete
    <3>2. UNCHANGED <<world, progress, past>>
      BY <1>3, Zenon DEF Delete
    <3>3. obj' \in Object /\ by' \in Caller \cup {NoOne} /\ refuted' \in BOOLEAN
      BY <3>1, <1>l DEF Place
    <3>4. pc' \in [Caller -> Label]
      BY <3>1, <1>s, Zenon DEF Goto, TypeOK
    <3> QED BY <3>1, <3>2, <3>3, <3>4, <1>l DEF TypeOK, world, local, past
  <2> QED BY <2>1, <2>2
<1>4. CASE Manifest(w)
  <2>1. CASE Reply(w, "failed")
    BY <1>4, <2>1, <1>l DEF Manifest, Reply, Exit, Goto, TypeOK, world, store, past, Answer
  <2>2. CASE ~Reply(w, "failed")
    <3>1. (known[w] \/ source = "chunked") \in BOOLEAN
      OBVIOUS
    <3>2. known' \in [Caller -> BOOLEAN]
      BY <1>4, <2>2, <3>1, Zenon DEF Manifest, TypeOK
    <3> QED BY <1>4, <2>2, <3>2, <1>l DEF Manifest, Goto, TypeOK, world, store, past
  <2> QED BY <2>1, <2>2
<1>5. CASE Seed(w)
  <2>1. progress' \in BOOLEAN
    BY <1>5, Zenon DEF Seed, WriteCopyProgress, TypeOK
  <2> QED BY <1>5, <2>1, <1>l DEF Seed, Goto, TypeOK, world, store, local, past
<1>6. CASE Open(w)
  <2>1. CASE Reply(w, "failed")
    BY <1>6, <2>1, <1>l DEF Open, Reply, Exit, Goto, TypeOK, world, store, past, Answer
  <2>2. CASE /\ Goto(w, IF FromDcp(w) THEN "seed" ELSE "upload")
             /\ UNCHANGED <<local, ans, seen>>
    BY <1>6, <2>2, <1>l DEF Open, Goto, TypeOK, world, store, local, past
  <2>3. CASE /\ ~FromDcp(w) /\ Settle(w, "failed")
             /\ UNCHANGED <<route, known, sent, ans, seen>>
    BY <1>6, <2>3, <1>l DEF Open, Settle, Goto, TypeOK, world, store, past, Answer
  <2> QED BY <1>6, <2>1, <2>2, <2>3 DEF Open
<1>7. CASE Upload(w)
  <2>1. Streams(w) \subseteq Object \ {"none"}
    BY <1>l DEF Streams, Content
  <2>2. refuted' \in BOOLEAN
    <3>1. \A c : Refutes(w, c) \in BOOLEAN
      BY Zenon DEF Refutes
    <3> QED BY <1>7, <3>1, Zenon DEF Upload, store, TypeOK
  <2>3. obj' \in Object /\ by' \in Caller \cup {NoOne} /\ sent' \in [Caller -> Object]
    BY <1>7, <2>1 DEF Upload, store, TypeOK
  <2>4. pc' \in [Caller -> Label] /\ verdict' \in [Caller -> Answer]
    BY <1>7, <1>l DEF Upload, Settle, Goto, TypeOK, Answer
  <2> QED BY <1>7, <2>2, <2>3, <2>4 DEF Upload, TypeOK, world, past
<1>8. CASE WriteProgress(w)
  <2>1. progress' \in BOOLEAN
    BY <1>8, Zenon DEF WriteProgress, WriteCopyProgress, TypeOK
  <2> QED BY <1>8, <2>1 DEF WriteProgress, TypeOK, world, store, local, past
<1>9. CASE Verify(w)
  BY <1>9, <1>l DEF Verify, Settle, Goto, TypeOK, world, store, past, Answer
<1>10. CASE CleanUp(w)
  <2>1. slipped' \in BOOLEAN
    <3>1. (slipped \/ (refuted /\ by = w)) \in BOOLEAN
      BY Zenon
    <3> QED BY <1>10, <3>1, Zenon DEF CleanUp, TypeOK
  <2> QED BY <1>10, <2>1, <1>l DEF CleanUp, Place, Settle, Goto, TypeOK, world, store, Answer
<1>11. CASE Finish(w)
  <2>1. progress' \in BOOLEAN /\ leftover' \in BOOLEAN
    BY <1>11, Zenon DEF Finish, TypeOK
  <2> QED BY <1>11, <2>1, <1>l DEF Finish, Reply, Exit, Goto, TypeOK, world, store, Answer
<1>12. CASE ResolveKeyAndSize(w)
  <2>1. CASE Reply(w, "failed")
    BY <1>12, <2>1, <1>l
       DEF ResolveKeyAndSize, Reply, Exit, Goto, TypeOK, world, store, past, Answer
  <2>2. CASE ~Reply(w, "failed")
    <3>1. known' \in [Caller -> BOOLEAN]
      BY <1>12, <2>2, Zenon DEF ResolveKeyAndSize, TypeOK
    <3>2. pc' = [pc EXCEPT ![w] = "probe"] /\ UNCHANGED <<route, sent, verdict, ans, seen>>
      BY <1>12, <2>2, Zenon DEF ResolveKeyAndSize, Goto
    <3> QED BY <1>12, <3>1, <3>2, <1>l DEF ResolveKeyAndSize, TypeOK, world, store, past
  <2> QED BY <2>1, <2>2
<1> QED BY <1>1, <1>2, <1>3, <1>4, <1>5, <1>6, <1>7, <1>8, <1>9, <1>10, <1>11, <1>12
        DEF CopyAipToWasabi

(* ... and under every step. *)
LEMMA AipTypeStep ==
  ASSUME AipAssumption, TypeOK, [Next]_vars
  PROVE  TypeOK'
<1>l. "idle" \in Label /\ "lookup" \in Label
  BY DEF Label
<1>1. ASSUME NEW w \in Caller, NEW r \in {"am", "dc"}, Begin(w, r)
      PROVE  TypeOK'
  <2>1. crossed' \in BOOLEAN
    <3>1. (crossed \/ \E v \in Caller : pc[v] # "idle") \in BOOLEAN
      OBVIOUS
    <3> QED BY <1>1, <3>1, Zenon DEF Begin
  <2> QED BY <1>1, <2>1, <1>l DEF Begin, Goto, TypeOK, world, store, Answer
<1>2. ASSUME NEW w \in Caller, CopyAipToWasabi(w)
      PROVE  TypeOK'
  BY <1>2, CopyTypeStep
<1>3. ASSUME NEW w \in Caller, Kill(w)
      PROVE  TypeOK'
  <2>1. slipped' \in BOOLEAN /\ leftover' \in BOOLEAN
    <3>1. /\ (slipped \/ (refuted /\ by = w)) \in BOOLEAN
          /\ (leftover \/ (progress /\ Shown(w))) \in BOOLEAN
      BY Zenon
    <3> QED BY <1>3, <3>1, Zenon DEF Kill
  <2>2. kills' \in 0..MaxKills
    BY <1>3 DEF Kill, TypeOK, AipAssumption
  <2> QED BY <1>3, <2>1, <2>2, <1>l DEF Kill, Exit, Goto, TypeOK, world, store, Answer, Object
<1>4. CASE UNCHANGED vars
  BY <1>4 DEF TypeOK, vars, world, store, local, past
<1> QED BY <1>1, <1>2, <1>3, <1>4 DEF Next

(* The types of all variables. *)
THEOREM AipTypeCorrect == Spec => []TypeOK
<1>1. ASSUME Init PROVE TypeOK
  <2>1. "idle" \in Label /\ "none" \in Answer /\ {"none", "good", "short"} \subseteq Object
    BY DEF Label, Answer, Object, Content
  <2>2. /\ large \in BOOLEAN /\ source \in Source /\ strict \in BOOLEAN
        /\ obj \in Object /\ by \in Caller \cup {NoOne} /\ refuted \in BOOLEAN
        /\ progress \in BOOLEAN /\ slipped \in BOOLEAN /\ leftover \in BOOLEAN
        /\ crossed \in BOOLEAN
    BY <1>1, <2>1 DEF Init
  <2>3. /\ pc \in [Caller -> Label] /\ route \in [Caller -> {"am", "dc"}]
        /\ sent \in [Caller -> Object] /\ verdict \in [Caller -> Answer]
        /\ ans \in [Caller -> Answer] /\ seen \in [Caller -> Object]
    BY <1>1, <2>1 DEF Init
  <2>4. known \in [Caller -> BOOLEAN]
    BY <1>1, Zenon DEF Init
  <2>5. kills \in 0..MaxKills
    BY <1>1, AipAssumption DEF Init, AipAssumption
  <2> QED BY <2>2, <2>3, <2>4, <2>5 DEF TypeOK
<1>2. TypeOK /\ [Next]_vars => TypeOK'
  BY AipAssumption, AipTypeStep
<1> QED BY <1>1, <1>2, PTL DEF Spec

-----------------------------------------------------------------------------
(* What a manifest refutes *)

(* An upload refutes what it stores, and leaves it in its copy's care: the *)
(* copy verifies it and then deletes it.                                   *)
LEMMA RefutedStep ==
  ASSUME TypeOK, RefutedIsOwned, [Next]_vars
  PROVE  RefutedIsOwned'
<1> DEFINE Owns(v) == /\ by = v
                      /\ \/ pc[v] = "verify" /\ Refutes(v, sent[v])
                         \/ pc[v] = "cleanup"
<1>0. RefutedIsOwned = (refuted => slipped \/ \E v \in Caller : Owns(v))
  BY DEF RefutedIsOwned
<1>1. ASSUME NEW w \in Caller, NEW r \in {"am", "dc"}, Begin(w, r)
      PROVE  RefutedIsOwned'
  <2>1. ASSUME NEW v \in Caller, Owns(v) PROVE Owns(v)'
    <3>1. v # w
      BY <1>1, <2>1 DEF Begin
    <3> QED BY <1>1, <2>1, <3>1 DEF Begin, Goto, TypeOK, store, world, Refutes, FromReplica
  <2>2. refuted' = refuted /\ slipped' = slipped
    BY <1>1 DEF Begin, store
  <2> QED BY <1>0, <2>1, <2>2 DEF RefutedIsOwned
<1>o. ASSUME NEW w \in Caller, CopyAipToWasabi(w), NEW v \in Caller, v # w, Owns(v), by' = by
      PROVE  Owns(v)'
  <2>1. source' = source
    BY <1>o DEF CopyAipToWasabi, LookUp, ResolveKeyAndSize, Probe, Delete, Manifest, Seed,
                Open, Upload, WriteProgress, Verify, CleanUp, Finish, world
  <2>2. pc'[v] = pc[v] /\ route'[v] = route[v] /\ sent'[v] = sent[v]
    BY <1>o, OwnStep
  <2> QED BY <1>o, <2>1, <2>2 DEF Refutes, FromReplica
<1>2. ASSUME NEW w \in Caller, CopyAipToWasabi(w), ~Upload(w), ~Verify(w), ~CleanUp(w)
      PROVE  RefutedIsOwned'
  <2>1. ~Owns(w)
    BY <1>2 DEF CopyAipToWasabi, LookUp, ResolveKeyAndSize, Probe, Delete, Manifest, Seed,
                Open, WriteProgress, Finish
  <2>2. slipped' = slipped /\ (refuted' => refuted /\ by' = by)
    BY <1>2 DEF CopyAipToWasabi, LookUp, ResolveKeyAndSize, Probe, Delete, Manifest, Seed,
                Open, WriteProgress, Finish, Place, store, past
  <2> QED BY <1>0, <1>2, <1>o, <2>1, <2>2 DEF RefutedIsOwned
<1>3. ASSUME NEW w \in Caller, Upload(w)
      PROVE  RefutedIsOwned'
  <2>0. slipped' = slipped /\ UNCHANGED <<source, route>>
    BY <1>3 DEF Upload, past, world
  <2>1. CASE \E c \in Streams(w) : /\ obj' = c /\ by' = w /\ refuted' = Refutes(w, c)
                                   /\ sent' = [sent EXCEPT ![w] = c]
                                   /\ Goto(w, "verify")
    <3>1. PICK c \in Streams(w) : by' = w /\ refuted' = Refutes(w, c)
                                  /\ sent' = [sent EXCEPT ![w] = c] /\ Goto(w, "verify")
      BY <2>1
    <3>2. sent'[w] = c /\ pc'[w] = "verify"
      BY <3>1 DEF Goto, TypeOK
    <3>3. refuted' => Refutes(w, sent[w])'
      BY <2>0, <3>1, <3>2 DEF Refutes, FromReplica
    <3> QED BY <3>1, <3>2, <3>3 DEF RefutedIsOwned
  <2>2. CASE UNCHANGED store
    <3>1. ~Owns(w)
      BY <1>3 DEF Upload
    <3> QED BY <1>0, <1>3, <1>o, <2>0, <2>2, <3>1 DEF RefutedIsOwned, store, CopyAipToWasabi
  <2> QED BY <1>3, <2>1, <2>2 DEF Upload
<1>4. ASSUME NEW w \in Caller, Verify(w)
      PROVE  RefutedIsOwned'
  <2>1. slipped' = slipped /\ UNCHANGED <<by, refuted>>
    BY <1>4 DEF Verify, past, store
  <2>2. Owns(w) => Owns(w)'
    BY <1>4, <2>1 DEF Verify, Goto, TypeOK
  <2> QED BY <1>0, <1>4, <1>o, <2>1, <2>2 DEF RefutedIsOwned, CopyAipToWasabi
<1>5. ASSUME NEW w \in Caller, CleanUp(w)
      PROVE  RefutedIsOwned'
  <2>1. CASE ~refuted'
    BY <2>1 DEF RefutedIsOwned
  <2>2. CASE UNCHANGED store /\ slipped' = (slipped \/ (refuted /\ by = w))
    BY <1>0, <1>5, <1>o, <2>2 DEF RefutedIsOwned, store, CopyAipToWasabi
  <2> QED BY <1>5, <2>1, <2>2 DEF CleanUp, Place
<1>6. ASSUME NEW w \in Caller, Kill(w)
      PROVE  RefutedIsOwned'
  <2>1. UNCHANGED <<by, refuted>> /\ slipped' = (slipped \/ (refuted /\ by = w))
    BY <1>6 DEF Kill, store
  <2>2. ASSUME NEW v \in Caller, v # w, Owns(v) PROVE Owns(v)'
    BY <1>6, <2>2 DEF Kill, Exit, Goto, TypeOK, store, world, Refutes, FromReplica
  <2> QED BY <1>0, <2>1, <2>2 DEF RefutedIsOwned
<1>7. CASE UNCHANGED vars
  BY <1>7 DEF RefutedIsOwned, Refutes, FromReplica, vars, store, world, local, past
<1> QED BY <1>1, <1>2, <1>3, <1>4, <1>5, <1>6, <1>7 DEF Next

(* An object that its manifest refutes is deleted by its own copy, unless  *)
(* the delete fails or the worker dies between the upload and the delete.  *)
THEOREM RefutedGoes == Spec => []RefutedIsRemoved
<1>1. Init => RefutedIsOwned
  BY DEF Init, RefutedIsOwned
<1>2. TypeOK /\ RefutedIsOwned /\ [Next]_vars => RefutedIsOwned'
  BY RefutedStep
<1>3. RefutedIsOwned => RefutedIsRemoved
  BY DEF RefutedIsOwned, RefutedIsRemoved
<1> QED BY <1>1, <1>2, <1>3, AipTypeCorrect, PTL DEF Spec

-----------------------------------------------------------------------------
(* The progress file *)

(* Who has the file in its care keeps it until its finally clause, and the *)
(* file appears only in somebody's care.                                   *)
LEMMA ProgressStep ==
  ASSUME AipAssumption, TypeOK, ProgressShown, [Next]_vars
  PROVE  ProgressShown'
<1>o. ASSUME NEW w \in Caller, CopyAipToWasabi(w), NEW v \in Caller, v # w, Shown(v)
      PROVE  Shown(v)'
  <2>1. source' = source
    BY <1>o DEF CopyAipToWasabi, LookUp, ResolveKeyAndSize, Probe, Delete, Manifest, Seed,
                Open, Upload, WriteProgress, Verify, CleanUp, Finish, world
  <2>2. pc'[v] = pc[v] /\ route'[v] = route[v]
    BY <1>o, OwnStep
  <2> QED BY <1>o, <2>1, <2>2 DEF Shown, FromDcp, FromReplica
<1>1. ASSUME NEW w \in Caller, NEW r \in {"am", "dc"}, Begin(w, r)
      PROVE  ProgressShown'
  <2>1. ASSUME NEW v \in Caller, Shown(v) PROVE Shown(v)'
    <3>1. v # w
      BY <1>1, <2>1 DEF Begin, Shown
    <3> QED BY <1>1, <2>1, <3>1 DEF Begin, Goto, Shown, FromDcp, FromReplica, TypeOK, world
  <2> QED BY <1>1, <2>1 DEF Begin, ProgressShown
<1>2. ASSUME NEW w \in Caller, CopyAipToWasabi(w), ~Shown(w), ~Seed(w)
      PROVE  ProgressShown'
  <2>1. progress' = progress /\ leftover' = leftover
    BY <1>2 DEF CopyAipToWasabi, LookUp, ResolveKeyAndSize, Probe, Delete, Manifest, Open, Upload,
                WriteProgress, Verify, CleanUp, Finish, past, Shown
  <2> QED BY <1>2, <1>o, <2>1 DEF ProgressShown
<1>3. ASSUME NEW w \in Caller, Seed(w)
      PROVE  ProgressShown'
  BY <1>3 DEF Seed, Goto, ProgressShown, Shown, FromDcp, FromReplica, TypeOK, local, world
<1>4. ASSUME NEW w \in Caller, CopyAipToWasabi(w), Shown(w)
      PROVE  ProgressShown'
  <2>1. CASE Finish(w)
    BY <2>1 DEF Finish, ProgressShown
  <2>2. CASE ~Finish(w)
    <3>1. Shown(w)'
      BY <1>4, <2>2 DEF CopyAipToWasabi, LookUp, ResolveKeyAndSize, Probe, Delete, Manifest, Seed,
                Open, Upload, WriteProgress, Verify, CleanUp, Settle, Goto, Shown, TypeOK
    <3> QED BY <3>1 DEF ProgressShown
  <2> QED BY <2>1, <2>2
<1>5. ASSUME NEW w \in Caller, Kill(w)
      PROVE  ProgressShown'
  <2>1. ASSUME NEW v \in Caller, v # w, Shown(v) PROVE Shown(v)'
    BY <1>5, <2>1 DEF Kill, Exit, Goto, Shown, FromDcp, FromReplica, TypeOK, world
  <2> QED BY <1>5, <2>1 DEF Kill, ProgressShown
<1>6. CASE UNCHANGED vars
  BY <1>6 DEF ProgressShown, Shown, FromDcp, FromReplica, vars, world, local, past
<1> QED BY <1>1, <1>2, <1>3, <1>4, <1>5, <1>6 DEF Next

(* The progress file means an active copy, unless it was left behind by a  *)
(* removal that failed or by a worker that died.                           *)
THEOREM ProgressActive == Spec => []ProgressMeansActive
<1>1. Init => ProgressShown
  BY DEF Init, ProgressShown
<1>2. TypeOK /\ ProgressShown /\ [Next]_vars => ProgressShown'
  BY AipAssumption, ProgressStep
<1>3. ProgressShown => ProgressMeansActive
  BY DEF ProgressShown, ProgressMeansActive, Shown, Streaming
<1> QED BY <1>1, <1>2, <1>3, AipTypeCorrect, PTL DEF Spec

-----------------------------------------------------------------------------
(* Good copies *)

(* A caller goes on from its probe only when it has not seen a good copy,  *)
(* and it keeps what it has seen to its end.                               *)
LEMMA ProbedStep ==
  ASSUME ~Sizeless, TypeOK, ProbedUnseen, [Next]_vars
  PROVE  ProbedUnseen'
<1>1. ASSUME NEW w \in Caller, NEW r \in {"am", "dc"}, Begin(w, r)
      PROVE  ProbedUnseen'
  BY <1>1 DEF Begin, Goto, ProbedUnseen, Pending, TypeOK
<1>2. ASSUME NEW w \in Caller, CopyAipToWasabi(w)
      PROVE  ProbedUnseen'
  <2>1. pc'[w] \in Pending \cup {"verify"} => seen'[w] # "good"
    <3>1. CASE LookUp(w) \/ ResolveKeyAndSize(w)
      BY <3>1 DEF LookUp, ResolveKeyAndSize, Reply, Exit, Goto, Pending, TypeOK
    <3>2. CASE Probe(w)
      BY <3>2 DEF Probe, Start, Matches, Reply, Exit, Goto, Pending, TypeOK
    <3>3. CASE Delete(w) \/ Manifest(w) \/ Seed(w) \/ Open(w) \/ Upload(w) \/ WriteProgress(w)
      BY <3>3 DEF Delete, Start, Manifest, Seed, Open, Upload, WriteProgress, Reply, Exit,
                  Settle, Goto, local, ProbedUnseen, Pending, TypeOK
    <3>4. CASE Verify(w) \/ CleanUp(w) \/ Finish(w)
      BY <3>4 DEF Verify, CleanUp, Finish, Reply, Exit, Settle, Goto, ProbedUnseen, Pending,
                  TypeOK
    <3> QED BY <1>2, <3>1, <3>2, <3>3, <3>4 DEF CopyAipToWasabi
  <2> QED BY <1>2, <2>1, OwnStep DEF ProbedUnseen
<1>3. ASSUME NEW w \in Caller, Kill(w)
      PROVE  ProbedUnseen'
  BY <1>3 DEF Kill, Exit, Goto, ProbedUnseen, Pending, TypeOK
<1>4. CASE UNCHANGED vars
  BY <1>4 DEF ProbedUnseen, vars
<1> QED BY <1>1, <1>2, <1>3, <1>4 DEF Next

(* The steps that change what is at the key. *)
LEMMA Writers ==
  ASSUME TypeOK, [Next]_vars, obj' # obj
  PROVE  \E w \in Caller : /\ pc[w] \in {"delete", "upload", "cleanup"}
                           /\ pc'[w] # pc[w]
                           /\ Delete(w) \/ Upload(w) \/ CleanUp(w)
<1>1. PICK w \in Caller : Delete(w) \/ Upload(w) \/ CleanUp(w)
  BY DEF Next, Begin, Kill, CopyAipToWasabi, LookUp, ResolveKeyAndSize, Probe, Manifest, Seed, Open,
         WriteProgress, Verify, Finish, vars, store
<1>2. pc[w] \in {"delete", "upload", "cleanup"} /\ pc'[w] # pc[w]
  BY <1>1 DEF Delete, Start, Upload, CleanUp, Reply, Exit, Settle, Goto, TypeOK
<1> QED BY <1>1, <1>2

(* Whatever overlaps, a copy removes or replaces a good object only if its *)
(* probe came before it.                                                   *)
THEOREM SeenIsSafe == ~Sizeless => (Spec => LostToStaleProbe)
<1> SUFFICES ASSUME ~Sizeless PROVE Spec => LostToStaleProbe
  OBVIOUS
<1>1. Init => ProbedUnseen
  BY DEF Init, ProbedUnseen, Pending
<1>2. TypeOK /\ ProbedUnseen /\ [Next]_vars => ProbedUnseen'
  BY ProbedStep
<1>3. ASSUME TypeOK, ProbedUnseen, [Next]_vars
      PROVE  [obj = "good" /\ obj' # "good" =>
               \E w \in Caller : /\ pc[w] \in {"delete", "upload", "cleanup"}
                                 /\ pc'[w] # pc[w]
                                 /\ seen[w] # "good"]_vars
  BY <1>3, Writers DEF ProbedUnseen, Pending
<1> QED BY <1>1, <1>2, <1>3, AipTypeCorrect, PTL DEF Spec, LostToStaleProbe

(* Without overlap, one copy is in flight at a time ...                    *)
LEMMA LoneStep ==
  ASSUME TypeOK, Lone, [Next]_vars
  PROVE  Lone'
<1>1. ASSUME NEW w \in Caller, NEW r \in {"am", "dc"}, Begin(w, r)
      PROVE  Lone'
  BY <1>1 DEF Begin, Goto, Lone, TypeOK
<1>2. ASSUME NEW w \in Caller, CopyAipToWasabi(w)
      PROVE  Lone'
  <2>1. pc[w] # "idle"
    BY <1>2 DEF CopyAipToWasabi, LookUp, ResolveKeyAndSize, Probe, Delete, Manifest, Seed,
                Open, Upload, WriteProgress, Verify, CleanUp, Finish
  <2>2. crossed' = crossed
    BY <1>2 DEF CopyAipToWasabi, LookUp, ResolveKeyAndSize, Probe, Delete, Manifest, Seed,
                Open, Upload, WriteProgress, Verify, CleanUp, Finish, past
  <2>3. \A v \in Caller : v # w => pc'[v] = pc[v]
    BY <1>2, OwnStep
  <2> QED BY <2>1, <2>2, <2>3 DEF Lone
<1>3. ASSUME NEW w \in Caller, Kill(w)
      PROVE  Lone'
  BY <1>3 DEF Kill, Exit, Goto, Lone, TypeOK
<1>4. CASE UNCHANGED vars
  BY <1>4 DEF Lone, vars, past
<1> QED BY <1>1, <1>2, <1>3, <1>4 DEF Next

(* ... and the key holds no good object before its upload, and its own     *)
(* between the upload and the verification.                                *)
LEMMA OwnObjectStep ==
  ASSUME ~Sizeless, TypeOK, Lone, OwnObject, [Next]_vars
  PROVE  OwnObject'
<1>1. ASSUME NEW w \in Caller, NEW r \in {"am", "dc"}, Begin(w, r)
      PROVE  OwnObject'
  BY <1>1 DEF Begin, Goto, OwnObject, Pending, TypeOK, store
<1>2. ASSUME NEW w \in Caller, CopyAipToWasabi(w), ~crossed
      PROVE  OwnObject'
  <2>1. \A v \in Caller : v # w => pc'[v] = "idle"
    <3>1. pc[w] # "idle"
      BY <1>2 DEF CopyAipToWasabi, LookUp, ResolveKeyAndSize, Probe, Delete, Manifest, Seed, Open,
                  Upload, WriteProgress, Verify, CleanUp, Finish
    <3> QED BY <1>2, <3>1, OwnStep DEF Lone
  <2>2. /\ pc'[w] \in Pending => obj' # "good"
        /\ pc'[w] = "verify" => obj' = sent'[w]
    <3>1. CASE LookUp(w) \/ ResolveKeyAndSize(w)
      BY <3>1 DEF LookUp, ResolveKeyAndSize, Reply, Exit, Goto, Pending, TypeOK
    <3>2. CASE Probe(w)
      BY <3>2 DEF Probe, Start, Matches, Reply, Exit, Goto, Pending, TypeOK, store
    <3>3. CASE Delete(w)
      BY <3>3 DEF Delete, Start, Place, Reply, Exit, Goto, Pending, TypeOK
    <3>4. CASE Manifest(w) \/ Seed(w) \/ Open(w) \/ WriteProgress(w)
      BY <1>2, <3>4 DEF Manifest, Seed, Open, WriteProgress, Reply, Exit, Settle, Goto, local,
                        store, OwnObject, Pending, TypeOK
    <3>5. CASE Upload(w)
      BY <1>2, <3>5 DEF Upload, Settle, Goto, store, OwnObject, Pending, TypeOK
    <3>6. CASE Verify(w)
      BY <1>2, <3>6 DEF Verify, Refutes, Settle, Goto, store, OwnObject, Pending, TypeOK
    <3>7. CASE CleanUp(w) \/ Finish(w)
      BY <3>7 DEF CleanUp, Finish, Reply, Exit, Settle, Goto, Pending, TypeOK
    <3> QED BY <1>2, <3>1, <3>2, <3>3, <3>4, <3>5, <3>6, <3>7 DEF CopyAipToWasabi
  <2> QED BY <2>1, <2>2 DEF OwnObject, Pending
<1>3. ASSUME NEW w \in Caller, CopyAipToWasabi(w), crossed
      PROVE  OwnObject'
  <2>1. crossed' = crossed
    BY <1>3 DEF CopyAipToWasabi, LookUp, ResolveKeyAndSize, Probe, Delete, Manifest, Seed,
                Open, Upload, WriteProgress, Verify, CleanUp, Finish, past
  <2> QED BY <1>3, <2>1 DEF OwnObject
<1>4. ASSUME NEW w \in Caller, Kill(w)
      PROVE  OwnObject'
  BY <1>4 DEF Kill, Exit, Goto, OwnObject, Pending, TypeOK, store
<1>5. CASE UNCHANGED vars
  BY <1>5 DEF OwnObject, vars, store, local, past
<1> QED BY <1>1, <1>2, <1>3, <1>4, <1>5 DEF Next

(* As long as copies come one at a time, a good copy is never lost.        *)
THEOREM GoodStays == ~Sizeless => (Spec => GoodKept)
<1> SUFFICES ASSUME ~Sizeless PROVE Spec => GoodKept
  OBVIOUS
<1>1. Init => Lone /\ OwnObject
  BY DEF Init, Lone, OwnObject, Pending
<1>2. TypeOK /\ Lone /\ OwnObject /\ [Next]_vars => Lone' /\ OwnObject'
  BY LoneStep, OwnObjectStep
<1>3. ASSUME TypeOK, OwnObject, [Next]_vars
      PROVE  [obj = "good" /\ ~crossed' => obj' = "good"]_vars
  <2>1. ~crossed' => ~crossed
    BY <1>3 DEF Next, Begin, Kill, CopyAipToWasabi, LookUp, ResolveKeyAndSize, Probe, Delete, Manifest, Seed,
                Open, Upload, WriteProgress, Verify, CleanUp, Finish, vars, past
  <2> QED BY <1>3, <2>1, Writers DEF OwnObject, Pending
<1> QED BY <1>1, <1>2, <1>3, AipTypeCorrect, PTL DEF Spec, GoodKept

-----------------------------------------------------------------------------
(* Sizes.  Without overlap, what a copy has uploaded stays at the key to   *)
(* the copy's end, a download from Archivematica that urllib3 has checked  *)
(* is not short, and a copy that knows the size is vouched for only when   *)
(* an object of this size is there.                                        *)
SizedInv ==
    crossed \/ \A w \in Caller :
        /\ pc[w] = "verify" =>
              /\ obj = sent[w] /\ sent[w] \in Content
              /\ Sized(w) => sent[w] # "short"
        /\ pc[w] = "finish" /\ verdict[w] = "ok" /\ known[w] /\ (strict \/ FromReplica(w))
              => obj \in {"good", "bad"}

(* Every step keeps that. *)
LEMMA SizedStep ==
  ASSUME TypeOK, Lone, SizedInv, [Next]_vars
  PROVE  SizedInv'
<1>1. ASSUME NEW w \in Caller, NEW r \in {"am", "dc"}, Begin(w, r)
      PROVE  SizedInv'
  <2> SUFFICES ASSUME ~crossed' PROVE \A v \in Caller : pc'[v] \notin {"verify", "finish"}
    BY DEF SizedInv
  <2> QED BY <1>1 DEF Begin, Goto, TypeOK
<1>2. ASSUME NEW w \in Caller, CopyAipToWasabi(w), ~crossed
      PROVE  SizedInv'
  <2>1. \A v \in Caller : v # w => pc'[v] = "idle"
    <3>1. pc[w] # "idle"
      BY <1>2 DEF CopyAipToWasabi, LookUp, ResolveKeyAndSize, Probe, Delete, Manifest, Seed, Open,
                  Upload, WriteProgress, Verify, CleanUp, Finish
    <3> QED BY <1>2, <3>1, OwnStep DEF Lone
  <2> DEFINE Whole == /\ obj = sent[w] /\ sent[w] \in Content
                      /\ Sized(w) => sent[w] # "short"
             Backed == verdict[w] = "ok" /\ known[w] /\ (strict \/ FromReplica(w))
                        => obj \in {"good", "bad"}
  <2>2. /\ pc'[w] = "verify" => Whole'
        /\ pc'[w] = "finish" => Backed'
    <3>1. CASE LookUp(w) \/ ResolveKeyAndSize(w)
      BY <3>1 DEF LookUp, ResolveKeyAndSize, Reply, Exit, Goto, TypeOK
    <3>2. CASE Probe(w) \/ Delete(w)
      BY <3>2 DEF Probe, Delete, Start, Reply, Exit, Goto, TypeOK
    <3>3. CASE Manifest(w) \/ Seed(w) \/ WriteProgress(w)
      BY <3>3 DEF Manifest, Seed, WriteProgress, Reply, Exit, Goto, TypeOK
    <3>4. CASE Open(w)
      BY <3>4 DEF Open, Reply, Exit, Settle, Goto, TypeOK
    <3>5. CASE Upload(w)
      <4>1. CASE \E c \in Streams(w) :
                    obj' = c /\ sent' = [sent EXCEPT ![w] = c] /\ Goto(w, "verify")
        <5>1. Streams(w) \subseteq Content /\ (Sized(w) => "short" \notin Streams(w))
          BY DEF Streams, Content
        <5>2. UNCHANGED <<strict, source, known, route>>
          BY <3>5 DEF Upload, world
        <5>3. sent'[w] \in Streams(w) /\ obj' = sent'[w] /\ pc'[w] = "verify"
          BY <4>1 DEF Goto, TypeOK
        <5> QED BY <5>1, <5>2, <5>3 DEF Sized, FromReplica
      <4>2. CASE Settle(w, "failed") \/ Goto(w, "cleanup")
        BY <4>2 DEF Settle, Goto, TypeOK
      <4> QED BY <3>5, <4>1, <4>2 DEF Upload
    <3>6. CASE Verify(w)
      <4>1. CASE ~Refutes(w, sent[w]) /\ Settle(w, "ok")
        <5>1. UNCHANGED <<obj, known, strict, route>> /\ pc'[w] = "finish"
          BY <3>6, <4>1 DEF Verify, Settle, Goto, world, store, TypeOK
        <5>2. Whole
          BY <1>2, <3>6 DEF SizedInv, Verify
        <5>3. known[w] /\ (strict \/ FromReplica(w)) => obj \in {"good", "bad"}
          BY <4>1, <5>2 DEF Refutes, Sized, Content
        <5> QED BY <5>1, <5>3 DEF FromReplica
      <4>2. CASE Goto(w, "cleanup")
        BY <4>2 DEF Goto, TypeOK
      <4> QED BY <3>6, <4>1, <4>2 DEF Verify
    <3>7. CASE CleanUp(w) \/ Finish(w)
      BY <3>7 DEF CleanUp, Finish, Reply, Exit, Settle, Goto, TypeOK
    <3> QED BY <1>2, <3>1, <3>2, <3>3, <3>4, <3>5, <3>6, <3>7 DEF CopyAipToWasabi
  <2> QED BY <2>1, <2>2 DEF SizedInv, Sized, FromReplica
<1>3. ASSUME NEW w \in Caller, CopyAipToWasabi(w), crossed
      PROVE  SizedInv'
  <2>1. crossed' = crossed
    BY <1>3 DEF CopyAipToWasabi, LookUp, ResolveKeyAndSize, Probe, Delete, Manifest, Seed,
                Open, Upload, WriteProgress, Verify, CleanUp, Finish, past
  <2> QED BY <1>3, <2>1 DEF SizedInv
<1>4. ASSUME NEW w \in Caller, Kill(w), ~crossed
      PROVE  SizedInv'
  <2>1. \A v \in Caller : pc'[v] = "idle"
    BY <1>4 DEF Kill, Exit, Goto, Lone, TypeOK
  <2> QED BY <2>1 DEF SizedInv
<1>5. ASSUME NEW w \in Caller, Kill(w), crossed
      PROVE  SizedInv'
  BY <1>5 DEF Kill, SizedInv
<1>6. CASE UNCHANGED vars
  BY <1>6 DEF SizedInv, Sized, vars, store, local, world, past, FromReplica
<1> QED BY <1>1, <1>2, <1>3, <1>4, <1>5, <1>6 DEF Next

(* One at a time, an ok answer to a caller that knows the size of the AIP  *)
(* means that an object of this size is at the key: found by the probe     *)
(* (lib/aip_ops.py), or uploaded and vouched for.                          *)
THEOREM OkMeansSized == Spec => OkIsSized
<1>1. Init => Lone /\ SizedInv
  BY DEF Init, Lone, SizedInv
<1>2. TypeOK /\ Lone /\ SizedInv /\ [Next]_vars => Lone' /\ SizedInv'
  BY LoneStep, SizedStep
<1>3. ASSUME TypeOK, SizedInv, [Next]_vars
      PROVE  [\A w \in Caller :
                 Accepts(w) /\ known[w] /\ ~crossed /\ (strict \/ FromReplica(w))
                   => obj \in {"good", "bad"}]_vars
  <2> SUFFICES ASSUME NEW w \in Caller, Accepts(w), known[w], ~crossed, strict \/ FromReplica(w)
               PROVE  obj \in {"good", "bad"}
    OBVIOUS
  <2>1. \A v \in Caller, a \in {"none", "failed"} :
            ans' = [ans EXCEPT ![v] = a] => ans'[w] # "ok"
    BY DEF Accepts, TypeOK
  <2>2. ans' # ans
    BY DEF Accepts
  <2>3. \A v \in Caller, a \in Answer : ans' = [ans EXCEPT ![v] = a] => a = "ok" /\ v = w
    BY <1>3, <2>1 DEF Accepts, TypeOK, Answer
  <2>4. CASE \E v \in Caller : Probe(v)
    BY <2>2, <2>3, <2>4 DEF Probe, Matches, Reply, Answer
  <2>5. CASE \E v \in Caller : Finish(v)
    <3>1. PICK v \in Caller : Finish(v)
      BY <2>5
    <3>2. verdict[v] \in Answer /\ ans' = [ans EXCEPT ![v] = verdict[v]] /\ pc[v] = "finish"
      BY <1>3, <3>1 DEF Finish, Reply, TypeOK
    <3> QED BY <2>3, <3>2, <1>3 DEF SizedInv
  <2>6. ASSUME ~(\E v \in Caller : Probe(v) \/ Finish(v)) PROVE FALSE
    BY <1>3, <2>1, <2>2, <2>6 DEF Accepts, Next, Begin, Kill, CopyAipToWasabi, LookUp, ResolveKeyAndSize, Delete,
         Manifest, Seed, Open, Upload, WriteProgress, Verify, CleanUp, Reply, vars
  <2> QED BY <2>4, <2>5, <2>6
<1> QED BY <1>1, <1>2, <1>3, AipTypeCorrect, PTL DEF Spec, OkIsSized
=============================================================================
