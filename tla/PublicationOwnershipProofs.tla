--------------------- MODULE PublicationOwnershipProofs ---------------------
(***************************************************************************)
(* The reserve, stage and commit protocol of PublicationOwnership is safe  *)
(* for any number of processes, workers, contents and steps.               *)
(***************************************************************************)
EXTENDS PublicationOwnership, TLAPS

-----------------------------------------------------------------------------
(* The records stay records of their type.                                 *)

\* The writes of the DNSPublicationOwnership record: takeover, reservation and
\* commit keep its type.
LEMMA OwnerUpdates ==
    ASSUME NEW o \in Owner
    PROVE  /\ \A h \in Identities, e \in Nat :
                 [o EXCEPT !.holder = h, !.epoch = e] \in Owner
           /\ \A n \in Nat : [o EXCEPT !.next = n] \in Owner
           /\ \A c \in Contents, f \in Fence :
                 [o EXCEPT !.hash = c, !.active = f] \in Owner
  BY Zenon DEF Owner

\* Every pass the actions write is a pass.
LEMMA PassTypes ==
    /\ NoPass \in Pass
    /\ \A o \in Owner : [NoPass EXCEPT !.at = "held", !.copy = o] \in Pass
    /\ \A p \in Pass :
          /\ \A c \in Contents, n \in Nat :
                [p EXCEPT !.at = "compiled", !.want = c, !.prev = n] \in Pass
          /\ \A o \in Owner : [p EXCEPT !.at = "reserved", !.copy = o] \in Pass
          /\ [p EXCEPT !.at = "staged"] \in Pass
<1>1. NoPass \in Pass
  BY ConstantsAssumption, Zenon DEF NoPass, Pass, NoOwner, Owner, NoFence, Fence
<1>2. QED
  BY <1>1, Zenon DEF Pass, Working

\* The fields a pass reads from its copy are numbers.
LEMMA CopyFields ==
    ASSUME TypeOK, NEW w \in Workers
    PROVE  /\ pass[w].copy \in Owner
           /\ pass[w].want \in Contents
           /\ pass[w].prev \in Nat
           /\ pass[w].copy.epoch \in Nat
           /\ pass[w].copy.next \in Nat
           /\ pass[w].copy.active \in Fence
           /\ pass[w].copy.active.revision \in Nat
           /\ ActiveRevision(pass[w].copy) \in Nat
           /\ Revision(pass[w].copy) \in Nat
           /\ Revision(pass[w].copy) >= 1
  BY DEF TypeOK, Pass, Owner, Fence, ActiveRevision, Revision

\* A reserved revision is positive, so what is staged under it is a manifest.
LEMMA StagingType ==
    ASSUME IInv, NEW w \in Workers, At(w, {"reserved", "staged"})
    PROVE  /\ Staging(w) \in Manifest
           /\ FenceOf(Staging(w)) \in Fence
           /\ FenceOf(Staging(w)).revision >= 1
<1>1. TypeOK /\ pass[w].copy.next >= 2
  BY Zenon DEF IInv, RevisionsAreUnique
<1>2. Staging(w) \in Manifest
  BY <1>1, CopyFields DEF Staging, Manifest
<1>3. QED
  BY <1>1, <1>2, CopyFields DEF Staging, FenceOf, Fence

\* Type correctness of every action of acquireOwnership and compileZone.
LEMMA TypeStep ==
    ASSUME IInv, [Next]_vars
    PROVE  TypeOK'
<1> USE ConstantsAssumption
<1>0. TypeOK
  BY Zenon DEF IInv
<1>1. ASSUME NEW w \in Workers, CreateOwnership(w) PROVE TypeOK'
  <2>1. PICK e \in 1..MaxSkip :
           own' = [holder |-> Me(w), epoch |-> e, next |-> 1,
                   active |-> NoFence, hash |-> NoHash]
    BY <1>1, Zenon DEF CreateOwnership
  <2>2. own' \in Owner
    BY <2>1 DEF Owner, Me, NoFence, Fence
  <2>3. QED
    BY <1>0, <1>1, <2>2, Zenon DEF TypeOK, CreateOwnership, world
<1>2. ASSUME NEW w \in Workers, TakeOver(w) PROVE TypeOK'
  <2>1. PICK e \in own.epoch + 1 .. own.epoch + MaxSkip :
           LET o == [own EXCEPT !.holder = Me(w), !.epoch = e]
           IN  Write(w, o) /\ Begin(w, o)
    BY <1>2, Zenon DEF TakeOver
  <2>2. own.epoch \in Nat /\ e \in Nat
    BY <1>0 DEF TypeOK, Owner
  <2>3. [own EXCEPT !.holder = Me(w), !.epoch = e] \in Owner
    BY <1>0, <2>2, OwnerUpdates, Zenon DEF TypeOK, Me
  <2>4. QED
    BY <1>0, <1>2, <2>1, <2>3, PassTypes, Zenon DEF TypeOK, TakeOver, Write, Begin, world
<1>3. ASSUME NEW w \in Workers, Hold(w) PROVE TypeOK'
  BY <1>0, <1>3, PassTypes, Zenon DEF TypeOK, Hold, Begin, world
<1>4. ASSUME NEW w \in Workers, Renew(w) PROVE TypeOK'
  BY <1>0, <1>4, PassTypes, Zenon DEF TypeOK, Renew, Begin, Write, world
<1>5. ASSUME NEW w \in Workers, Queue(w) \/ GiveUp(w) PROVE TypeOK'
  <2>1. pass' \in [Workers -> Pass]
    BY <1>0, <1>5, PassTypes, Zenon DEF TypeOK, Queue, GiveUp, End
  <2>2. QED
    BY <1>0, <1>5, <2>1, Zenon DEF TypeOK, Queue, GiveUp, record, world
<1>6. ASSUME NEW w \in Workers, Compile(w) PROVE TypeOK'
  <2>1. ActiveRevision(pass[w].copy) \in Nat /\ desired \in Contents
    BY <1>0, CopyFields, Zenon DEF TypeOK
  <2>2. pass' \in [Workers -> Pass]
    <3>1. [pass[w] EXCEPT !.at = "compiled", !.want = desired,
                          !.prev = ActiveRevision(pass[w].copy)] \in Pass
      BY <1>0, <2>1, PassTypes, Zenon DEF TypeOK
    <3>2. QED
      BY <1>0, <1>6, <3>1, PassTypes, Zenon DEF TypeOK, Compile, End
  <2>3. QED
    BY <1>0, <1>6, <2>2, Zenon DEF TypeOK, Compile, record, world
<1>7. ASSUME NEW w \in Workers, Reserve(w) PROVE TypeOK'
  <2>1. [pass[w].copy EXCEPT !.next = Revision(pass[w].copy) + 1] \in Owner
    <3>1. pass[w].copy \in Owner /\ Revision(pass[w].copy) + 1 \in Nat
      BY <1>0, CopyFields
    <3>2. QED
      BY <3>1, OwnerUpdates, Zenon
  <2>2. pass' \in [Workers -> Pass]
    <3> DEFINE o == [pass[w].copy EXCEPT !.next = Revision(pass[w].copy) + 1]
    <3>1. [pass[w] EXCEPT !.at = "reserved", !.copy = o] \in Pass
      BY <1>0, <2>1, PassTypes, Zenon DEF TypeOK
    <3>2. QED
      BY <1>0, <1>7, <3>1, PassTypes, Zenon DEF TypeOK, Reserve, Conflict, End
  <2>3. own' \in Owner
    BY <1>0, <1>7, <2>1, Zenon DEF TypeOK, Reserve, Write, Conflict, record
  <2>4. QED
    BY <1>0, <1>7, <2>2, <2>3, Zenon DEF TypeOK, Reserve, Write, Conflict, record, world
<1>9. ASSUME NEW w \in Workers, Persist(w) PROVE TypeOK'
  <2>1. Staging(w) \in Manifest
    BY <1>9, StagingType, Zenon DEF Persist, At
  <2>2. pass' \in [Workers -> Pass]
    <3>1. [pass[w] EXCEPT !.at = "staged"] \in Pass
      BY <1>0, PassTypes, Zenon DEF TypeOK
    <3>2. QED
      BY <1>0, <1>9, <3>1, PassTypes, Zenon DEF TypeOK, Persist, End
  <2>3. QED
    BY <1>0, <1>9, <2>1, <2>2, Zenon DEF TypeOK, Persist, record, world
<1>10. ASSUME NEW w \in Workers, Commit(w) PROVE TypeOK'
  <2>1. FenceOf(Staging(w)) \in Fence
    BY <1>10, StagingType, Zenon DEF Commit, At
  <2>2. [pass[w].copy EXCEPT !.hash = pass[w].want,
                             !.active = FenceOf(Staging(w))] \in Owner
    BY <1>0, <2>1, CopyFields, OwnerUpdates, Zenon
  <2>3. pass' \in [Workers -> Pass]
    BY <1>0, <1>10, PassTypes, Zenon DEF TypeOK, Commit, Conflict, End
  <2>4. QED
    BY <1>0, <1>10, <2>2, <2>3, Zenon DEF TypeOK, Commit, Write, Conflict, record, world
<1>11. ASSUME LeaseAges \/ LeaseExpires \/ ChangeInputs PROVE TypeOK'
  BY <1>0, <1>11 DEF TypeOK, LeaseAges, LeaseExpires, ChangeInputs, record
<1>12. ASSUME NEW i \in Identities, Stop(i) \/ ReleaseOwnership(i) PROVE TypeOK'
  BY <1>0, <1>12 DEF TypeOK, Stop, ReleaseOwnership, record, world
<1>13. ASSUME NEW i \in Identities, Crash(i) \/ Restart(i) PROVE TypeOK'
  <2>1. pass' \in [Workers -> Pass]
    BY <1>0, <1>13, PassTypes, Zenon DEF TypeOK, Crash, Restart, Lost
  <2>2. QED
    BY <1>0, <1>13, <2>1 DEF TypeOK, Crash, Restart, record
<1>14. ASSUME UNCHANGED vars PROVE TypeOK'
  BY <1>0, <1>14, Zenon DEF TypeOK, vars
<1>16. ASSUME NEW w \in Workers, Fail(w) PROVE TypeOK'
  <2>1. pass' \in [Workers -> Pass]
    BY <1>0, <1>16, PassTypes, Zenon DEF TypeOK, Fail, End
  <2>2. QED
    BY <1>0, <1>16, <2>1 DEF TypeOK, Fail, record
<1>17. QED
  BY <1>1, <1>2, <1>3, <1>4, <1>5, <1>6, <1>7, <1>9, <1>10, <1>11, <1>12,
     <1>13, <1>14, <1>16, Zenon DEF Next, Work
-----------------------------------------------------------------------------
(* The invariant is inductive.                                             *)

\* Steps that leave the record and the manifests alone and only end passes:
\* conflicts, shutdowns, crashes, the passing of time.
LEMMA PassesEnd ==
    ASSUME IInv, TypeOK', own' = own, manifests' = manifests, fresh' \subseteq fresh,
           \A w \in Workers : pass'[w] = pass[w] \/ pass'[w] = NoPass
    PROVE  IInv'
<1> USE DEF At, Working
<1>1. \A w \in Workers : pass'[w].at # "idle" => pass'[w] = pass[w]
  BY DEF NoPass
<1>2. NothingBeforeRecord'
  BY DEF IInv, NothingBeforeRecord, NoPass
<1>3. CopiesAreReads'
  BY <1>1, Zenon DEF IInv, CopiesAreReads
<1>4. RevisionsAreUnique'
  BY <1>1, Zenon DEF IInv, RevisionsAreUnique
<1>5. PassIsConsistent'
  BY <1>1, Zenon DEF IInv, PassIsConsistent, Staging
<1>6. PointerIsBehind'
  BY Zenon DEF IInv, PointerIsBehind
<1>7. QED
  BY <1>2, <1>3, <1>4, <1>5, <1>6, Zenon DEF IInv

\* Creation: nothing refers to the record yet.
LEMMA CreateStep ==
    ASSUME IInv, TypeOK', NEW w \in Workers, CreateOwnership(w)
    PROVE  IInv'
<1> USE DEF At, Working
<1>1. /\ own'.holder = Me(w) /\ own'.active = NoFence
      /\ pass' = pass /\ manifests' = manifests /\ manifests = {}
      /\ \A v \in Workers : pass[v].at = "idle"
  BY DEF CreateOwnership, IInv, NothingBeforeRecord
<1>2. NothingBeforeRecord'
  BY <1>1, ConstantsAssumption, Zenon DEF NothingBeforeRecord, Me
<1>3. CopiesAreReads' /\ RevisionsAreUnique' /\ PassIsConsistent'
  BY <1>1, Zenon DEF CopiesAreReads, RevisionsAreUnique, PassIsConsistent
<1>4. PointerIsBehind'
  BY <1>1, Zenon DEF PointerIsBehind
<1>5. QED
  BY <1>2, <1>3, <1>4, Zenon DEF IInv

\* Acquisition: the pass starts with the record as it now is, and only the
\* holder and the epoch may have changed, the epoch upwards.
LEMMA AcquireStep ==
    ASSUME IInv, TypeOK', NEW w \in Workers,
           TakeOver(w) \/ Hold(w) \/ Renew(w)
    PROVE  IInv'
<1> USE DEF At, Working
<1>0. TypeOK
  BY Zenon DEF IInv
<1>1. /\ own'.next = own.next /\ own'.active = own.active /\ own'.hash = own.hash
      /\ own.epoch <= own'.epoch
      /\ own'.holder = Me(w)
      /\ pass' = [pass EXCEPT ![w] = [NoPass EXCEPT !.at = "held", !.copy = own']]
      /\ fresh' = {w} \/ (own' = own /\ fresh' = fresh \cup {w})
      /\ manifests' = manifests
  <2>1. CASE TakeOver(w)
    <3>1. PICK e \in own.epoch + 1 .. own.epoch + MaxSkip :
             LET o == [own EXCEPT !.holder = Me(w), !.epoch = e]
             IN  Write(w, o) /\ Begin(w, o)
      BY <2>1, Zenon DEF TakeOver
    <3>2. own.epoch \in Nat /\ e \in Nat /\ e > own.epoch
      BY <1>0, ConstantsAssumption DEF TypeOK, Owner
    <3>3. /\ own' = [own EXCEPT !.holder = Me(w), !.epoch = e]
          /\ fresh' = {w} /\ manifests' = manifests
          /\ pass' = [pass EXCEPT ![w] = [NoPass EXCEPT !.at = "held", !.copy = own']]
      BY <2>1, <3>1, Zenon DEF TakeOver, Write, Begin
    <3>4. /\ own'.next = own.next /\ own'.active = own.active /\ own'.hash = own.hash
          /\ own'.holder = Me(w) /\ own'.epoch = e
      BY <1>0, <3>3, Zenon DEF TypeOK, Owner
    <3>5. QED
      BY <3>2, <3>3, <3>4
  <2>2. CASE Hold(w) \/ Renew(w)
    <3>1. /\ own' = own /\ own.holder = Me(w) /\ manifests' = manifests
          /\ fresh' = {w} \/ fresh' = fresh \cup {w}
          /\ pass' = [pass EXCEPT ![w] = [NoPass EXCEPT !.at = "held", !.copy = own]]
      BY <2>2, Zenon DEF Hold, Renew, Write, Begin
    <3>2. own.epoch \in Nat
      BY <1>0, Zenon DEF TypeOK, Owner
    <3>3. QED
      BY <3>1, <3>2
  <2>3. QED
    BY <2>1, <2>2, Zenon
<1>2. /\ pass'[w].at = "held" /\ pass'[w].copy = own'
      /\ \A v \in Workers : v # w => pass'[v] = pass[v]
  BY <1>0, <1>1, Zenon DEF TypeOK, NoPass
<1>3. NothingBeforeRecord'
  BY <1>1, ConstantsAssumption, Zenon DEF NothingBeforeRecord, Me
<1>4. CopiesAreReads'
  <2>1. own'.next \in Nat /\ own.epoch \in Nat /\ own'.epoch \in Nat
    BY <1>0, Zenon DEF TypeOK, Owner
  <2>2. \A v \in Workers : pass[v].copy.epoch \in Nat
    BY <1>0, CopyFields, Zenon
  <2>3. QED
    BY <1>1, <1>2, <2>1, <2>2 DEF IInv, CopiesAreReads
<1>5. RevisionsAreUnique'
  BY <1>1, <1>2 DEF IInv, RevisionsAreUnique
<1>6. PassIsConsistent'
  BY <1>1, <1>2 DEF IInv, PassIsConsistent, Staging
<1>7. PointerIsBehind'
  BY <1>0, <1>1 DEF IInv, PointerIsBehind, TypeOK, Owner, Fence
<1>8. QED
  BY <1>3, <1>4, <1>5, <1>6, <1>7, Zenon DEF IInv

\* Compilation: previousRevision comes from the copy.
LEMMA CompileStep ==
    ASSUME IInv, TypeOK', NEW w \in Workers, Compile(w)
    PROVE  IInv'
<1> USE DEF At, Working
<1>0. /\ TypeOK
      /\ own' = own /\ manifests' = manifests /\ fresh' = fresh
  BY Zenon DEF IInv, Compile, record
<1>1. CASE End(w)
  BY <1>0, <1>1, PassesEnd, Zenon DEF End, TypeOK
<1>2. CASE pass' = [pass EXCEPT ![w] = [@ EXCEPT !.at = "compiled",
                !.want = desired, !.prev = ActiveRevision(pass[w].copy)]]
  <2>1. /\ pass[w].at = "held" /\ pass'[w].at = "compiled"
        /\ pass'[w].copy = pass[w].copy
        /\ pass'[w].prev = ActiveRevision(pass[w].copy)
        /\ \A v \in Workers : v # w => pass'[v] = pass[v]
    BY <1>0, <1>2, Zenon DEF Compile, TypeOK, Pass
  <2>2. NothingBeforeRecord'
    BY <1>0, <2>1, Zenon DEF IInv, NothingBeforeRecord
  <2>3. CopiesAreReads'
    BY <1>0, <2>1, Zenon DEF IInv, CopiesAreReads
  <2>4. RevisionsAreUnique'
    BY <1>0, <2>1, ZenonT(40) DEF IInv, RevisionsAreUnique
  <2>5. PassIsConsistent'
    BY <1>0, <2>1, Zenon DEF IInv, PassIsConsistent, Staging
  <2>6. PointerIsBehind'
    BY <1>0, Zenon DEF IInv, PointerIsBehind
  <2>7. QED
    BY <2>2, <2>3, <2>4, <2>5, <2>6, Zenon DEF IInv
<1>3. QED
  BY <1>1, <1>2, Zenon DEF Compile

\* Reservation: the optimistic lock makes the copy the record, so the revision
\* is above every one handed out before.
LEMMA ReserveStep ==
    ASSUME IInv, TypeOK', NEW w \in Workers, Reserve(w)
    PROVE  IInv'
<1> USE DEF At, Working
<1>0. TypeOK
  BY Zenon DEF IInv
<1>1. CASE Conflict(w)
  BY <1>0, <1>1, PassesEnd, Zenon DEF Conflict, End, TypeOK, record
<1>2. CASE w \in fresh /\ ~Conflict(w)
  <2>1. /\ pass[w].at = "compiled" /\ pass[w].copy = own
        /\ own' = [own EXCEPT !.next = Revision(own) + 1]
        /\ pass' = [pass EXCEPT ![w] = [@ EXCEPT !.at = "reserved", !.copy = own']]
        /\ fresh' = {w} /\ manifests' = manifests
    BY <1>2, Zenon DEF Reserve, Write, IInv, CopiesAreReads
  <2>2. /\ own.next \in Nat /\ own.active.revision \in Nat /\ own.epoch \in Nat
        /\ own'.next = Revision(own) + 1 /\ own'.holder = own.holder
        /\ own'.epoch = own.epoch /\ own'.active = own.active /\ own'.hash = own.hash
        /\ Revision(own) \in Nat /\ Revision(own) >= own.next /\ Revision(own) >= 1
    BY <1>0, <2>1 DEF TypeOK, Owner, Fence, Revision
  <2>3. /\ pass'[w].at = "reserved" /\ pass'[w].copy = own'
        /\ pass'[w].prev = pass[w].prev
        /\ \A v \in Workers : v # w => pass'[v] = pass[v]
    BY <1>0, <2>1 DEF TypeOK, Pass
  <2>4. NothingBeforeRecord'
    BY <2>1, <2>2, Zenon DEF IInv, NothingBeforeRecord
  <2>5. \A v \in Workers :
           /\ pass[v].copy.next \in Nat
           /\ pass[v].at # "idle" => /\ pass[v].copy.next <= own.next
                                     /\ pass[v].copy.epoch <= own.epoch
    BY <1>0, CopyFields, Zenon DEF IInv, CopiesAreReads, TypeOK, Pass
  <2>6. CopiesAreReads'
    <3> SUFFICES ASSUME NEW v \in Workers, pass'[v].at # "idle"
                 PROVE  /\ v \in fresh' => pass'[v].copy = own'
                        /\ pass'[v].copy.next <= own'.next
                        /\ pass'[v].copy.epoch <= own'.epoch
      BY Zenon DEF CopiesAreReads
    <3>1. CASE v = w
      BY <2>2, <2>3, <3>1
    <3>2. CASE v # w
      <4>1. pass'[v] = pass[v] /\ v \notin fresh'
        BY <2>1, <2>3, <3>2, Zenon
      <4>2. pass[v].at # "idle"
        BY <4>1, Zenon
      <4>3. /\ pass[v].copy.next \in Nat /\ pass[v].copy.next <= own.next
            /\ pass[v].copy.epoch <= own.epoch
        BY <2>5, <4>2, Zenon
      <4>4. QED
        BY <2>2, <4>1, <4>3
    <3>3. QED
      BY <3>1, <3>2, Zenon
  <2>7. \A m \in manifests : m.revision \in Nat /\ m.revision < own.next
    BY <1>0, Zenon DEF IInv, RevisionsAreUnique, TypeOK, Manifest
  <2>8. RevisionsAreUnique'
    BY <2>1, <2>2, <2>3, <2>5, <2>7 DEF IInv, RevisionsAreUnique
  <2>9. own.active.revision < Revision(own)
    BY <2>2 DEF IInv, PointerIsBehind, NoFence
  <2>10. ActiveRevision(own') = ActiveRevision(own)
    BY <2>2, Zenon DEF ActiveRevision
  <2>11. PassIsConsistent'
    <3>1. pass[w].prev = ActiveRevision(own)
      BY <2>1, Zenon DEF IInv, PassIsConsistent
    <3>2. own'.active.revision < own'.next - 1
      BY <2>2, <2>9
    <3>3. QED
      BY <2>1, <2>3, <2>10, <3>1, <3>2 DEF IInv, PassIsConsistent, Staging
  <2>12. PointerIsBehind'
    BY <2>1, <2>2 DEF IInv, PointerIsBehind
  <2>13. QED
    BY <2>4, <2>6, <2>8, <2>11, <2>12, Zenon DEF IInv
<1>3. QED
  BY <1>1, <1>2, Zenon DEF Reserve

\* Staging: the reserved revision becomes a manifest.
LEMMA PersistStep ==
    ASSUME IInv, TypeOK', NEW w \in Workers, Persist(w)
    PROVE  IInv'
<1> USE DEF At, Working
<1>0. /\ TypeOK
      /\ pass[w].at = "reserved" /\ own' = own /\ fresh' = fresh
  BY Zenon DEF IInv, Persist, record
<1>1. CASE End(w) /\ manifests' = manifests
  BY <1>0, <1>1, PassesEnd, Zenon DEF End, TypeOK
<1>2. CASE /\ pass' = [pass EXCEPT ![w] = [@ EXCEPT !.at = "staged"]]
           /\ manifests' = manifests \cup {Staging(w)}
  <2>1. /\ pass'[w].at = "staged" /\ pass'[w].copy = pass[w].copy
        /\ pass'[w].prev = pass[w].prev /\ pass'[w].want = pass[w].want
        /\ \A v \in Workers : v # w => pass'[v] = pass[v]
    BY <1>0, <1>2, Zenon DEF TypeOK, Pass
  <2>2. /\ Staging(w).revision = pass[w].copy.next - 1
        /\ Staging(w)' = Staging(w)
    BY <2>1, Zenon DEF Staging
  <2>3. \A v \in Workers : pass[v].copy.next \in Nat
    BY <1>0, CopyFields, Zenon
  <2>4. own.next \in Nat
    BY <1>0, Zenon DEF TypeOK, Owner
  <2>5. NothingBeforeRecord'
    BY <1>0, Zenon DEF IInv, NothingBeforeRecord
  <2>6. CopiesAreReads'
    BY <1>0, <2>1, Zenon DEF IInv, CopiesAreReads
  <2>7. RevisionsAreUnique'
    <3>1. \A m \in manifests' : m.revision < own'.next
      BY <1>0, <1>2, <2>2, <2>3, <2>4 DEF IInv, RevisionsAreUnique, CopiesAreReads
    <3>2. \A v \in Workers, m \in manifests' :
             pass'[v].at = "reserved" => m.revision # pass'[v].copy.next - 1
      BY <1>0, <1>2, <2>1, <2>2, <2>3 DEF IInv, RevisionsAreUnique
    <3>3. QED
      BY <1>0, <2>1, <3>1, <3>2 DEF IInv, RevisionsAreUnique
  <2>8. PassIsConsistent'
    <3>1. \A v \in Workers : pass'[v].at = "staged" => Staging(v)' \in manifests'
      BY <1>2, <2>1, <2>2 DEF IInv, PassIsConsistent, Staging
    <3>2. QED
      BY <1>0, <2>1, <3>1, Zenon DEF IInv, PassIsConsistent
  <2>9. PointerIsBehind'
    BY <1>0, <1>2, Zenon DEF IInv, PointerIsBehind
  <2>10. QED
    BY <2>5, <2>6, <2>7, <2>8, <2>9, Zenon DEF IInv
<1>3. QED
  BY <1>1, <1>2, Zenon DEF Persist

\* What a successful commit does to the record.
LEMMA CommitWrites ==
    ASSUME IInv, NEW w \in Workers, Commit(w), w \in fresh
    PROVE  /\ pass[w].at = "staged" /\ pass[w].copy = own
           /\ Staging(w) \in manifests
           /\ own'.holder = own.holder /\ own'.epoch = own.epoch
           /\ own'.next = own.next /\ own'.hash = Staging(w).content
           /\ own'.active = FenceOf(Staging(w))
           /\ fresh' = {w} /\ manifests' = manifests
           /\ pass' = [pass EXCEPT ![w] = NoPass]
<1>1. pass[w].at = "staged" /\ pass[w].copy = own /\ own \in Owner
  BY Zenon DEF Commit, IInv, CopiesAreReads, At, Working, TypeOK
<1>2. own' = [own EXCEPT !.hash = pass[w].want, !.active = FenceOf(Staging(w))]
  BY <1>1, Zenon DEF Commit, Conflict, Write
<1>3. Staging(w) \in manifests
  BY <1>1, Zenon DEF IInv, PassIsConsistent, At
<1>4. /\ own'.holder = own.holder /\ own'.epoch = own.epoch
      /\ own'.next = own.next /\ own'.hash = pass[w].want
      /\ own'.active = FenceOf(Staging(w))
  BY <1>1, <1>2, Zenon DEF Owner
<1>5. Staging(w).content = pass[w].want
  BY Zenon DEF Staging
<1>6. QED
  BY <1>1, <1>3, <1>4, <1>5, Zenon DEF Commit, Conflict, Write, End

\* Commit: the optimistic lock again makes the copy the record.
LEMMA CommitStep ==
    ASSUME IInv, TypeOK', NEW w \in Workers, Commit(w)
    PROVE  IInv'
<1> USE DEF At, Working
<1>0. TypeOK
  BY Zenon DEF IInv
<1>1. CASE Conflict(w)
  BY <1>0, <1>1, PassesEnd, Zenon DEF Conflict, End, TypeOK, record
<1>2. CASE w \in fresh
  <2>1. \A v \in Workers : pass'[v].at # "idle" => v # w /\ pass'[v] = pass[v]
    BY <1>0, <1>2, CommitWrites DEF TypeOK, NoPass
  <2>2. NothingBeforeRecord'
    BY <1>2, CommitWrites, Zenon DEF IInv, NothingBeforeRecord
  <2>3. CopiesAreReads'
    BY <1>2, <2>1, CommitWrites DEF IInv, CopiesAreReads
  <2>4. RevisionsAreUnique'
    BY <1>2, <2>1, CommitWrites DEF IInv, RevisionsAreUnique
  <2>5. PassIsConsistent'
    <3>1. manifests' = manifests
      BY <1>2, CommitWrites, Zenon
    <3>2. QED
      BY <2>1, <3>1, Zenon DEF IInv, PassIsConsistent, Staging
  <2>6. PointerIsBehind'
    <3>1. /\ FenceOf(Staging(w)).revision = own.next - 1
          /\ FenceOf(Staging(w)).epoch = own.epoch
      BY <1>2, CommitWrites, Zenon DEF FenceOf, Staging
    <3>2. own.next \in Nat /\ own.next >= 2 /\ own.epoch \in Nat
      BY <1>0, <1>2, CommitWrites, Zenon DEF TypeOK, Owner, IInv, RevisionsAreUnique
    <3>3. QED
      BY <1>2, <3>1, <3>2, CommitWrites DEF PointerIsBehind
  <2>7. QED
    BY <2>2, <2>3, <2>4, <2>5, <2>6, Zenon DEF IInv
<1>3. QED
  BY <1>1, <1>2, Zenon DEF Commit

\* IInv is inductive.
LEMMA Inductive ==
    ASSUME IInv, [Next]_vars
    PROVE  IInv'
<1>0. TypeOK'
  BY TypeStep, Zenon
<1>1. ASSUME NEW w \in Workers, Work(w) PROVE IInv'
  <2>1. CASE Queue(w) \/ GiveUp(w)
    BY <1>0, <2>1, PassesEnd, Zenon DEF Queue, GiveUp, End, IInv, TypeOK, record
  <2>2. QED
    BY <1>0, <1>1, <2>1, CreateStep, AcquireStep, CompileStep, ReserveStep,
       PersistStep, CommitStep, Zenon DEF Work
<1>2. CASE LeaseAges \/ LeaseExpires \/ ChangeInputs
  BY <1>0, <1>2, PassesEnd, Zenon DEF LeaseAges, LeaseExpires, ChangeInputs, record
<1>3. ASSUME NEW i \in Identities, Stop(i) \/ ReleaseOwnership(i) PROVE IInv'
  BY <1>0, <1>3, PassesEnd, Zenon DEF Stop, ReleaseOwnership, record
<1>4. ASSUME NEW i \in Identities, Crash(i) \/ Restart(i) PROVE IInv'
  BY <1>0, <1>4, PassesEnd, Zenon DEF Crash, Restart, Lost, IInv, TypeOK, record
<1>5. CASE UNCHANGED vars
  BY <1>0, <1>5, PassesEnd, Zenon DEF vars
<1>6. ASSUME NEW w \in Workers, Fail(w) PROVE IInv'
  BY <1>0, <1>6, PassesEnd, Zenon DEF Fail, End, IInv, TypeOK, record
<1>7. QED
  BY <1>1, <1>2, <1>3, <1>4, <1>5, <1>6, Zenon DEF Next

\* IInv holds in every reachable state of the publication protocol.
THEOREM Invariance == Spec => []IInv
<1>1. Init => IInv
  <2> SUFFICES ASSUME Init PROVE IInv
    BY Zenon
  <2> USE DEF Init, At, Working
  <2>1. TypeOK
    BY ConstantsAssumption, PassTypes, Zenon DEF TypeOK, NoOwner, Owner, NoFence, Fence
  <2>2. \A w \in Workers : pass[w].at = "idle"
    BY Zenon DEF NoPass
  <2>3. NothingBeforeRecord
    BY <2>2, Zenon DEF NothingBeforeRecord
  <2>4. CopiesAreReads /\ RevisionsAreUnique /\ PassIsConsistent
    BY <2>2, Zenon DEF CopiesAreReads, RevisionsAreUnique, PassIsConsistent
  <2>5. PointerIsBehind
    BY Zenon DEF PointerIsBehind, NoOwner
  <2>6. QED
    BY <2>1, <2>3, <2>4, <2>5, Zenon DEF IInv
<1>2. IInv /\ [Next]_vars => IInv'
  BY Inductive, Zenon
<1>3. QED
  BY <1>1, <1>2, PTL DEF Spec

-----------------------------------------------------------------------------
(* What it gives.                                                          *)

\* Every variable keeps its type.
THEOREM TypeCorrect == Spec => []TypeOK
<1>1. IInv => TypeOK
  BY Zenon DEF IInv
<1>2. QED
  BY <1>1, Invariance, PTL

\* A reserved (epoch, revision) is never reused: createImmutable never meets a
\* conflicting object, whoever crashed or was deposed before.
THEOREM IdentitiesAreUnique == Spec => []NoIdentityReuse
<1>1. IInv => NoIdentityReuse
  <2> SUFFICES ASSUME IInv PROVE NoIdentityReuse
    BY Zenon
  <2> USE DEF At, Staging, FenceOf
  <2>1. ASSUME NEW w \in Reserved, NEW m \in manifests
        PROVE  FenceOf(m) # FenceOf(Staging(w))
    BY <2>1, Zenon DEF IInv, RevisionsAreUnique, Reserved
  <2>2. ASSUME NEW v \in Reserved \cup Staged, NEW w \in Reserved \cup Staged, v # w
        PROVE  FenceOf(Staging(v)) # FenceOf(Staging(w))
    <3>1. /\ pass[v].copy.next # pass[w].copy.next
          /\ pass[v].copy.next \in Nat /\ pass[w].copy.next \in Nat
      BY <2>2, CopyFields, Zenon DEF IInv, RevisionsAreUnique, Reserved, Staged
    <3>2. QED
      BY <3>1
  <2>3. QED
    BY <2>1, <2>2, Zenon DEF NoIdentityReuse
<1>2. QED
  BY <1>1, Invariance, PTL

\* The commit pointer always names a manifest that was staged in full.
THEOREM PointerIsStaged == Spec => []ActiveIsStaged
<1>1. IInv => ActiveIsStaged
  BY Zenon DEF IInv, PointerIsBehind, ActiveIsStaged
<1>2. QED
  BY <1>1, Invariance, PTL

\* Commits are made in the current epoch, strictly forward, each on the
\* revision that was active before it: a deposed writer never commits.
THEOREM CommitsAdvance == Spec => CommitAdvances
<1> DEFINE Advances == own'.active # own.active =>
        /\ own'.epoch = own.epoch
        /\ own'.active.epoch = own.epoch
        /\ Later(own'.active, own.active)
        /\ \E m \in manifests :
              /\ FenceOf(m) = own'.active
              /\ m.previous = ActiveRevision(own)
<1>1. IInv /\ [Next]_vars => [Advances]_vars
  <2> SUFFICES ASSUME IInv, Next, own'.active # own.active PROVE Advances
    BY Zenon
  <2>0. TypeOK
    BY Zenon DEF IInv
  <2>1. \E w \in Workers : Commit(w) /\ w \in fresh
    <3>1. ASSUME NEW w \in Workers, CreateOwnership(w) PROVE own'.active = own.active
      BY <3>1 DEF CreateOwnership, IInv, NothingBeforeRecord, NoOwner
    <3>2. ASSUME NEW w \in Workers, TakeOver(w) PROVE own'.active = own.active
      BY <2>0, <3>2, Zenon DEF TakeOver, Write, TypeOK, Owner
    <3>3. ASSUME NEW w \in Workers, Reserve(w) PROVE own'.active = own.active
      BY <2>0, <3>3, ZenonT(40) DEF Reserve, Write, Conflict, record, IInv, CopiesAreReads,
                        At, Working, TypeOK, Owner
    <3>4. ASSUME NEW w \in Workers, Commit(w), w \notin fresh PROVE own' = own
      BY <3>4, Zenon DEF Commit, Conflict, record
    <3>5. ASSUME NEW w \in Workers, Hold(w) \/ Renew(w) \/ Queue(w) \/ Compile(w)
                 \/ GiveUp(w) \/ Persist(w) PROVE own' = own
      BY <3>5, Zenon DEF Hold, Renew, Write, Queue, Compile, GiveUp, Persist, record
    <3>6. ASSUME LeaseAges \/ LeaseExpires \/ ChangeInputs
                 \/ \E i \in Identities : Stop(i) \/ ReleaseOwnership(i)
                                           \/ Crash(i) \/ Restart(i)
          PROVE  own' = own
      BY <3>6, Zenon DEF LeaseAges, LeaseExpires, ChangeInputs, Stop, ReleaseOwnership,
                  Crash, Restart, record
    <3>7. ASSUME NEW w \in Workers, Fail(w) PROVE own' = own
      BY <3>7, Zenon DEF Fail, record
    <3>8. QED
      BY <3>1, <3>2, <3>3, <3>4, <3>5, <3>6, <3>7, Zenon DEF Next, Work
  <2>2. PICK w \in Workers : Commit(w) /\ w \in fresh
    BY <2>1, Zenon
  <2>3. /\ own'.active.epoch = own.epoch
        /\ own'.active.revision = own.next - 1
        /\ Staging(w).previous = pass[w].prev
    <3>1. own'.active = FenceOf(Staging(w)) /\ pass[w].copy = own
      BY <2>2, CommitWrites, Zenon
    <3>2. QED
      BY <3>1 DEF FenceOf, Staging
  <2>4. /\ own.active.revision < own.next - 1
        /\ pass[w].prev = ActiveRevision(own)
    BY <2>2, CommitWrites, Zenon DEF IInv, PassIsConsistent, At
  <2>5. Later(own'.active, own.active)
    <3>1. /\ own.active.epoch \in Nat /\ own.epoch \in Nat
          /\ own.active.revision \in Nat /\ own.next \in Nat
      BY <2>0, Zenon DEF TypeOK, Owner, Fence
    <3>2. own.active.epoch <= own.epoch
      BY <3>1 DEF IInv, PointerIsBehind, NoFence
    <3>3. QED
      BY <2>3, <2>4, <3>1, <3>2 DEF Later
  <2>6. QED
    BY <2>2, <2>3, <2>4, <2>5, CommitWrites, Zenon
<1>2. QED
  BY <1>1, Invariance, PTL DEF Spec, CommitAdvances

-----------------------------------------------------------------------------
(* PublicationOwnership implements PublicationLog.                          *)

\* Staging adds one manifest, under a name that no manifest has.
LEMMA PersistIsStage ==
    ASSUME IInv, NEW w \in Workers, Persist(w)
    PROVE  [Log!LogNext]_(Log!logVars)
<1> USE DEF At, Working
<1>1. CASE manifests' = manifests
  BY <1>1, Zenon DEF Persist, record, Log!logVars
<1>2. CASE manifests' = manifests \cup {Staging(w)} /\ Staging(w) \notin manifests
  <2>1. pass[w].at = "reserved" /\ own' = own
    BY Zenon DEF Persist, record
  <2>2. Staging(w) \in Log!Manifest
    BY <2>1, StagingType, Zenon DEF Manifest, Log!Manifest
  <2>3. Staging(w).epoch <= own.epoch
    BY <2>1, Zenon DEF Staging, IInv, CopiesAreReads
  <2>4. \A n \in manifests : Log!FenceOf(n) # Log!FenceOf(Staging(w))
    BY <2>1, Zenon DEF Staging, IInv, RevisionsAreUnique, Log!FenceOf
  <2>5. Log!Stage
    BY <1>2, <2>1, <2>2, <2>3, <2>4, Zenon DEF Log!Stage
  <2>6. QED
    BY <2>5, Zenon DEF Log!LogNext
<1>3. QED
  BY <1>1, <1>2, Zenon DEF Persist

\* A commit moves the pointer as the log allows: forward, within the epoch,
\* onto a manifest based on the revision it replaces.
LEMMA CommitIsCommit ==
    ASSUME IInv, NEW w \in Workers, Commit(w), w \in fresh
    PROVE  Log!CommitTo(Staging(w)) /\ Staging(w) \in manifests
<1> USE DEF At, Working
<1>1. /\ pass[w].at = "staged" /\ pass[w].copy = own
      /\ Staging(w) \in manifests
      /\ own'.epoch = own.epoch /\ own'.active = FenceOf(Staging(w))
      /\ manifests' = manifests
  BY CommitWrites, Zenon
<1>2. /\ own.epoch \in Nat /\ own.next \in Nat
      /\ own.active.epoch \in Nat /\ own.active.revision \in Nat
  BY Zenon DEF IInv, TypeOK, Owner, Fence
<1>3. own.active.epoch <= own.epoch
  BY <1>2 DEF IInv, PointerIsBehind, NoFence
<1>4. /\ Staging(w).epoch = own.epoch
      /\ Staging(w).revision = own.next - 1
      /\ Staging(w).previous = ActiveRevision(own)
      /\ own.active.revision < own.next - 1
  BY <1>1, Zenon DEF IInv, PassIsConsistent, Staging
<1>5. Log!Later(Staging(w), own.active)
  BY <1>2, <1>3, <1>4 DEF Log!Later
<1>6. Staging(w).previous = Log!Base
  BY <1>2, <1>3, <1>4 DEF Log!Base, ActiveRevision, NoFence
<1>7. QED
  BY <1>1, <1>4, <1>5, <1>6, Zenon DEF Log!CommitTo, Log!FenceOf, FenceOf

\* What acquireOwnership, compileZone and ReleaseOwnership do to manifests and
\* commit pointer is what PublicationLog allows: exporters and agents can rely
\* on the log whatever happens to leases and processes.
THEOREM OwnershipImplementsLog == Spec => ImplementsLog
<1>1. Init => Log!LogInit
  BY DEF Init, NoOwner, NoFence, Log!LogInit, Log!NoFence
<1>2. IInv /\ [Next]_vars => [Log!LogNext]_(Log!logVars)
  <2> SUFFICES ASSUME IInv, [Next]_vars PROVE [Log!LogNext]_(Log!logVars)
    BY Zenon
  <2> USE DEF Log!logVars
  <2>0. TypeOK
    BY Zenon DEF IInv
  <2>1. ASSUME NEW w \in Workers, CreateOwnership(w) PROVE Log!NewEpoch
    <3>1. PICK e \in 1..MaxSkip :
             own' = [holder |-> Me(w), epoch |-> e, next |-> 1,
                     active |-> NoFence, hash |-> NoHash]
      BY <2>1, Zenon DEF CreateOwnership
    <3>2. e \in Nat /\ e > 0 /\ own = NoOwner /\ manifests' = manifests
      BY <2>1, ConstantsAssumption DEF CreateOwnership, IInv, NothingBeforeRecord
    <3>3. QED
      BY <3>1, <3>2, Zenon DEF NoOwner, Log!NewEpoch
  <2>2. ASSUME NEW w \in Workers, TakeOver(w) PROVE Log!NewEpoch
    <3>1. PICK e \in own.epoch + 1 .. own.epoch + MaxSkip :
             own' = [own EXCEPT !.holder = Me(w), !.epoch = e]
      BY <2>2, Zenon DEF TakeOver, Write
    <3>2. own.epoch \in Nat /\ e \in Nat /\ e > own.epoch /\ manifests' = manifests
      BY <2>0, <2>2, ConstantsAssumption DEF TakeOver, TypeOK, Owner
    <3>3. own'.epoch = e /\ own'.active = own.active
      BY <2>0, <3>1, Zenon DEF TypeOK, Owner
    <3>4. QED
      BY <3>2, <3>3, Zenon DEF Log!NewEpoch
  <2>3. ASSUME NEW w \in Workers, Reserve(w)
        PROVE  own'.epoch = own.epoch /\ own'.active = own.active /\ manifests' = manifests
    BY <2>0, <2>3, ZenonT(40) DEF Reserve, Write, Conflict, record, IInv, CopiesAreReads,
                      At, Working, TypeOK, Owner
  <2>4. ASSUME NEW w \in Workers, Commit(w) PROVE [Log!LogNext]_(Log!logVars)
    <3>1. CASE w \in fresh
      BY <2>4, <3>1, CommitIsCommit, Zenon DEF Log!LogNext
    <3>2. CASE w \notin fresh
      BY <2>4, <3>2, Zenon DEF Commit, Conflict, record
    <3>3. QED
      BY <3>1, <3>2, Zenon
  <2>5. ASSUME NEW w \in Workers,
               Hold(w) \/ Renew(w) \/ Queue(w) \/ Compile(w) \/ GiveUp(w) \/ Fail(w)
        PROVE  own' = own /\ manifests' = manifests
    BY <2>5, Zenon DEF Hold, Renew, Write, Queue, Compile, GiveUp, Fail, record
  <2>6. ASSUME LeaseAges \/ LeaseExpires \/ ChangeInputs
               \/ \E i \in Identities : Stop(i) \/ ReleaseOwnership(i)
                                         \/ Crash(i) \/ Restart(i)
        PROVE  own' = own /\ manifests' = manifests
    BY <2>6, Zenon DEF LeaseAges, LeaseExpires, ChangeInputs, Stop, ReleaseOwnership,
                Crash, Restart, record
  <2>7. CASE UNCHANGED vars
    BY <2>7, Zenon DEF vars
  <2>8. QED
    BY <2>1, <2>2, <2>3, <2>4, <2>5, <2>6, <2>7, PersistIsStage, Zenon
       DEF Next, Work, Log!LogNext
<1>3. QED
  BY <1>1, <1>2, Invariance, PTL DEF Spec, ImplementsLog, Log!LogSpec
=============================================================================
