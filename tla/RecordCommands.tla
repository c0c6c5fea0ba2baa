--------------------------- MODULE RecordCommands ---------------------------
(***************************************************************************)
(* The record commands of the datumctl plugin: record create, set, delete  *)
(* and apply, and zone import (internal/cmd/dns/record, zone/import.go).   *)
(*                                                                         *)
(* A DNSRecordSet holds every record of one type of a zone, so every       *)
(* command reads an object, edits the list of entries in it and writes the *)
(* whole list back.  Several people, the portal, the operator and the      *)
(* Gateway controller do the same to the same objects.  A zone may have    *)
(* two sets of one type: slot 1 and slot 2 in the order of their names, of *)
(* which Conventional is the name the plugin would create.                 *)
(*                                                                         *)
(* An entry is an owner name, in the relative or the absolute spelling, a  *)
(* value and a TTL (0 for Auto).  A copy that a command holds is marked    *)
(* stale when its object is written, which stands for the resourceVersion. *)
(***************************************************************************)
EXTENDS Naturals, FiniteSets, SequencesExt

CONSTANTS
    Commands,     \* the shells commands run in
    TypeOrder,    \* rdata.SupportedTypes, those of the instance
    Owners,       \* qualified owner names, "@" the apex
    Values,       \* record data, per type
    Malformed,    \* record data that does not validate
    TTLs,         \* 0 is Auto
    DefaultTTL,   \* util.DefaultTTL
    Inputs,       \* the command lines
    ForeignEntries, \* the entries the portal and the Gateway controller write
    Delegation,   \* the apex entry of the sets the operator creates
    Starts,       \* the record sets the zone may begin with
    Conventional, \* setObjectName: the slot of <zone>-<type>
    MaxRuns,      \* bound: commands run
    MaxWrites,    \* bound: writes of the others
    MaxEntries    \* bound: entries the others let a set grow to

VARIABLES
    rcStore,      \* the record sets of the zone
    rcRun,        \* the command each shell runs
    rcBudget      \* what is left of the bounds

rcVars == <<rcStore, rcRun, rcBudget>>

Types == Range(TypeOrder)
Slots == 1..2
Entry == [owner : Owners, absolute : BOOLEAN, value : Values, ttl : TTLs]
NoSet == [there |-> FALSE, machine |-> FALSE, recs |-> <<>>]
\* What findSet and listSets hand to a command: the slot, 0 for a nil set, a
\* copy of the object, and whether the object still is what was read.
NoCopy == [slot |-> 0, set |-> NoSet, fresh |-> TRUE]
Idle == [at |-> "idle"]

RecordTypeOK ==
    /\ rcStore \in [Types -> [Slots -> [there : BOOLEAN, machine : BOOLEAN, recs : Seq(Entry)]]]
    /\ \A t \in Types, s \in Slots : rcStore[t][s].there <=> rcStore[t][s].recs # <<>>
    /\ \A c \in Commands : rcRun[c].at \in {"idle", "read", "ask", "write", "refetch"}

CommandsInit ==
    /\ rcStore \in Starts
    /\ rcRun = [c \in Commands |-> Idle]
    /\ rcBudget = [runs |-> MaxRuns, writes |-> MaxWrites]

----------------------------------------------------------------------------
(* Records. *)

\* FQDN and sameOwner: both spellings of a name are one owner.
FQDN(e) == e.owner
sameOwner(e, n) == FQDN(e) = n

\* indexOfEntry: the same owner and the same value, whatever the TTL.
SameRecord(e, f) == sameOwner(e, FQDN(f)) /\ e.value = f.value
Holds(recs, e) == \E i \in DOMAIN recs : SameRecord(recs[i], e)
indexOfEntry(recs, e) == CHOOSE i \in DOMAIN recs :
    SameRecord(recs[i], e) /\ \A j \in 1..(i - 1) : ~SameRecord(recs[j], e)

\* util.TTLEqual: Auto is the default.
TTLEqual(a, b) == LET ttl(x) == IF x = 0 THEN DefaultTTL ELSE x IN ttl(a) = ttl(b)

IsSingleValued(t) == t \in {"CNAME", "ALIAS", "SOA"}

\* ValidateInZone and validateName, record data being well formed or not.
ValidateInZone(t, e) ==
    /\ e.value \notin Malformed
    /\ t = "CNAME" => FQDN(e) # "@"
    /\ t = "SOA" => FQDN(e) = "@"

\* ValidateEntriesInZone
ValidateEntries(t, recs) ==
    /\ recs # <<>>
    /\ \A i \in DOMAIN recs : ValidateInZone(t, recs[i])
    /\ \A i, j \in DOMAIN recs : i # j =>
        /\ ~SameRecord(recs[i], recs[j])
        /\ IsSingleValued(t) => FQDN(recs[i]) # FQDN(recs[j])

\* isPlatformShape: the SOA, and the NS records of the apex, however spelled.
IsPlatformShape(t, n) == t = "SOA" \/ (t = "NS" /\ n = "@")

Others(recs, n) == SelectSeq(recs, LAMBDA e : ~sameOwner(e, n))
entriesForOwner(recs, n) == SelectSeq(recs, LAMBDA e : sameOwner(e, n))

----------------------------------------------------------------------------
(* Reading. *)

Present(t) == {s \in Slots : rcStore[t][s].there}
Copy(t, s) == IF s = 0 THEN NoCopy ELSE [slot |-> s, set |-> rcStore[t][s], fresh |-> TRUE]
FirstOf(S) == CHOOSE s \in S : \A u \in S : s <= u

\* findSet: the set that holds the name, the Gateway's before the user's, else
\* the first by object name.  A command that names no owner passes "".
findSet(t, n) ==
    LET holding == {s \in Present(t) : \E i \in DOMAIN rcStore[t][s].recs :
                        sameOwner(rcStore[t][s].recs[i], n)}
        owned == {s \in holding : rcStore[t][s].machine}
    IN CASE owned # {} -> Copy(t, FirstOf(owned))
         [] owned = {} /\ holding # {} -> Copy(t, FirstOf(holding))
         [] holding = {} /\ Present(t) # {} -> Copy(t, FirstOf(Present(t)))
         [] Present(t) = {} -> NoCopy

\* newPlan and bulkSetsByType: the first set of each type by object name.
SetsByType == [t \in Types |-> IF Present(t) = {} THEN NoCopy ELSE Copy(t, FirstOf(Present(t)))]

----------------------------------------------------------------------------
(* Edits: the new list of entries, and whether the edit is accepted. *)

Edited(ok, recs) == [ok |-> ok, recs |-> recs]

ownerTTL(recs, n) == LET own == entriesForOwner(recs, n) IN IF own = <<>> THEN 0 ELSE own[1].ttl

\* effectiveTTL: --ttl, else the TTL the name already has.
effectiveTTL(in, recs) == IF in.ttlSet THEN in.ttl ELSE ownerTTL(recs, in.owner)

Given(in, ttl) == [i \in DOMAIN in.values |->
    [owner |-> in.owner, absolute |-> FALSE, value |-> in.values[i], ttl |-> ttl]]

retimeOwner(recs, n, ttl) == [i \in DOMAIN recs |->
    IF sameOwner(recs[i], n) THEN [recs[i] EXCEPT !.ttl = ttl] ELSE recs[i]]

\* validateOwner: the entries at the name only.
ValidOwner(in, recs) == ValidateEntries(in.type, entriesForOwner(recs, in.owner))

\* appendEdit: a value that is there already is refused.
appendEdit(in, recs) ==
    LET ttl == effectiveTTL(in, recs)
        new == Given(in, ttl)
        all == IF in.ttlSet THEN retimeOwner(recs \o new, in.owner, ttl) ELSE recs \o new
    IN Edited(~(\E i \in DOMAIN new : Holds(recs, new[i])) /\ ValidOwner(in, all), all)

\* replaceEdit
replaceEdit(in, recs) ==
    LET all == Others(recs, in.owner) \o Given(in, effectiveTTL(in, recs))
    IN Edited(ValidOwner(in, all), all)

\* matches: no value means every value at the name.
Matches(in, e) == sameOwner(e, in.owner) /\ (in.values = <<>> \/ e.value = in.values[1])
deleteEdit(in, recs) == Edited(TRUE, SelectSeq(recs, LAMBDA e : ~Matches(in, e)))

----------------------------------------------------------------------------
(* record apply: the plan, and the edit recomputed from what was read. *)

FileOf(in, t) == LET mine == SelectSeq(in.file, LAMBDA r : r.type = t)
                 IN [i \in DOMAIN mine |-> mine[i].entry]

\* protectedEntry: classify, of the set the plan was made from, and platformRisk.
protectedEntry(machine, t, e) == machine \/ IsPlatformShape(t, FQDN(e))

\* withoutOwner for a single-valued type, else replace the same value or append.
MergeOne(t, recs, e) ==
    IF IsSingleValued(t) THEN Append(Others(recs, FQDN(e)), e)
    ELSE IF Holds(recs, e) THEN [recs EXCEPT ![indexOfEntry(recs, e)] = e]
    ELSE Append(recs, e)

\* plan.resolve with protection on.  No entry of the file that is left names an
\* owner of keep.  `machine` is about the set as it was when the plan was made.
resolve(in, machine, t, recs) ==
    LET keep == SelectSeq(recs, LAMBDA e : protectedEntry(machine, t, e))
        editable == SelectSeq(recs, LAMBDA e : ~protectedEntry(machine, t, e))
        ownedByPlatform(e) == \E i \in DOMAIN keep : sameOwner(keep[i], FQDN(e))
        file == SelectSeq(FileOf(in, t),
                    LAMBDA e : ~ownedByPlatform(e) /\ ~protectedEntry(machine, t, e))
    IN IF machine THEN recs
       ELSE IF in.option THEN keep \o file
       ELSE FoldLeft(LAMBDA acc, e : MergeOne(t, acc, e), keep \o editable, file)

\* diffEntries: an entry added, one of another TTL, or one removed.
Differs(before, after) ==
    \/ \E i \in DOMAIN after : ~Holds(before, after[i])
    \/ \E i \in DOMAIN after : Holds(before, after[i])
            /\ ~TTLEqual(before[indexOfEntry(before, after[i])].ttl, after[i].ttl)
    \/ \E i \in DOMAIN before : ~Holds(after, before[i])

\* newPlan: the types with a change, in order.
PlannedTypes(in, copies) ==
    SelectSeq(TypeOrder, LAMBDA t :
        LET set == copies[t].set
        IN Differs(set.recs, resolve(in, set.machine, t, set.recs)))

\* converge's closure: validated after it is recomputed.
applyFileEdit(in, machine, t, recs) ==
    LET all == resolve(in, machine, t, recs)
    IN Edited(all = <<>> \/ ValidateEntries(t, all), all)

----------------------------------------------------------------------------
(* zone import. *)

\* rewriteApexCNAME
Rewritten(file) == [i \in DOMAIN file |->
    IF file[i].type = "CNAME" /\ FQDN(file[i].entry) = "@"
    THEN [file[i] EXCEPT !.type = "ALIAS"] ELSE file[i]]

ImportFile(in) == [in EXCEPT !.file = Rewritten(in.file)]

\* planType: the records the platform does not own, merged into the set, or into
\* what the platform owns of it with --replace.
Accepted(in, t) == SelectSeq(FileOf(ImportFile(in), t), LAMBDA e : ~IsPlatformShape(t, FQDN(e)))
ImportMerge(recs, e) ==
    IF ~Holds(recs, e) THEN Append(recs, e)
    ELSE LET i == indexOfEntry(recs, e)
         IN IF TTLEqual(recs[i].ttl, e.ttl) THEN recs ELSE [recs EXCEPT ![i] = e]
ImportNext(in, t, recs) ==
    LET keep == SelectSeq(recs, LAMBDA e : IsPlatformShape(t, FQDN(e)))
    IN FoldLeft(ImportMerge, IF in.option THEN keep ELSE recs, Accepted(in, t))

\* A type of which nothing is accepted is not planned; one whose set is the
\* Gateway's, or that does not validate, fails the whole import.
ImportTypes(in) == SelectSeq(TypeOrder, LAMBDA t : Accepted(in, t) # <<>>)
ImportRejected(in, copies) ==
    \E t \in Types : FileOf(ImportFile(in), t) # <<>> /\
        \/ copies[t].set.machine
        \/ \E i \in DOMAIN Accepted(in, t) : ~ValidateInZone(t, Accepted(in, t)[i])
        \/ Accepted(in, t) # <<>> /\ ~ValidateEntries(t, ImportNext(in, t, copies[t].set.recs))

----------------------------------------------------------------------------
(* A command's steps. *)

Targeted(in) == in.verb \in {"create", "set", "delete"}
Set(c, r) == rcRun' = [rcRun EXCEPT ![c] = r]
End(c) == Set(c, Idle)

\* parseRecordInput and parseAndValidate: what the command line says is checked
\* before the first call.  zone import validates with its plan.
ParsesWell(in) ==
    CASE in.verb \in {"create", "set"} -> ValidateEntries(in.type, Given(in, 0))
      [] in.verb = "apply" ->
            \A t \in Types : FileOf(in, t) # <<>> => ValidateEntries(t, FileOf(in, t))
      [] OTHER -> TRUE

\* runMutate, runDelete, runApply and runImport up to their first read.  Only
\* zone import asks, for --replace, before it reads.
Run(c, in) ==
    /\ rcRun[c] = Idle
    /\ rcBudget.runs > 0
    /\ ParsesWell(in)
    /\ rcBudget' = [rcBudget EXCEPT !.runs = @ - 1]
    /\ Set(c, [at |-> IF in.verb = "import" /\ in.option THEN "ask" ELSE "read",
               in |-> in, copies |-> [t \in Types |-> NoCopy],
               owned |-> [t \in Types |-> FALSE], todo |-> <<>>, attempt |-> 0])
    /\ UNCHANGED rcStore

\* guardMutation
Guarded(in, set) == set.machine \/ (IsPlatformShape(in.type, in.owner) /\ ~in.force)

\* runDelete: nothing of that name, or of that value, is there.
NothingDoomed(in, set) == ~\E i \in DOMAIN set.recs : Matches(in, set.recs[i])

CopiesFor(in) ==
    IF Targeted(in) THEN [t \in Types |-> IF t = in.type THEN findSet(t, in.owner) ELSE NoCopy]
    ELSE SetsByType

\* The first read, and everything decided from it.
Read(c) ==
    LET r == rcRun[c]
        in == r.in
        copies == CopiesFor(in)
        set == copies[in.type].set
        work == [r EXCEPT !.copies = copies,
                          !.owned = [t \in Types |-> copies[t].set.machine]]
        refused == \/ in.verb = "delete" /\ NothingDoomed(in, set)
                   \/ Targeted(in) /\ Guarded(in, set)
                   \/ in.verb = "apply" /\ PlannedTypes(in, copies) = <<>>
                   \/ in.verb = "import" /\ (ImportTypes(in) = <<>> \/ ImportRejected(in, copies))
        todo == CASE Targeted(in) -> <<in.type>>
                  [] in.verb = "apply" -> PlannedTypes(in, copies)
                  [] in.verb = "import" -> ImportTypes(in)
    IN /\ r.at = "read"
       /\ IF refused THEN End(c)
          ELSE Set(c, [work EXCEPT !.todo = todo,
                       !.at = IF in.verb \in {"delete", "apply"} THEN "ask" ELSE "write"])
       /\ UNCHANGED <<rcStore, rcBudget>>

\* ConfirmYesNo, and confirmApply's refusal to delete unattended.
Answer(c) ==
    /\ rcRun[c].at = "ask"
    /\ \/ Set(c, [rcRun[c] EXCEPT !.at = IF rcRun[c].in.verb = "import" THEN "read" ELSE "write"])
       \/ End(c)
    /\ UNCHANGED <<rcStore, rcBudget>>

EditOf(r, t, recs) ==
    CASE r.in.verb = "create" -> appendEdit(r.in, recs)
      [] r.in.verb = "set" -> replaceEdit(r.in, recs)
      [] r.in.verb = "delete" -> deleteEdit(r.in, recs)
      [] r.in.verb = "apply" -> applyFileEdit(r.in, r.owned[t], t, recs)
      [] r.in.verb = "import" -> Edited(TRUE, ImportNext(r.in, t, recs))

\* The type is settled, written or not: converge and convergeImport go on.
Advanced(r) == IF Len(r.todo) = 1 THEN Idle
               ELSE [r EXCEPT !.todo = Tail(@), !.at = "write", !.attempt = 0]

\* A copy of an object that is written no longer has its resourceVersion.
Outdated(r, t, s) == IF r.at # "idle" /\ r.copies[t].slot = s
                     THEN [r EXCEPT !.copies[t].fresh = FALSE] ELSE r

Store(t, s, set) == rcStore' = [rcStore EXCEPT ![t][s] = set]
Object(machine, recs) == IF recs = <<>> THEN NoSet
                         ELSE [there |-> TRUE, machine |-> machine, recs |-> recs]

Put(c, t, s, set) ==
    LET r == rcRun[c]
        changes == ~r.in.dry /\ rcStore[t][s] # set
    IN /\ IF changes THEN Store(t, s, set) ELSE UNCHANGED rcStore
       /\ rcRun' = [d \in Commands |-> IF d = c THEN Advanced(r)
                                       ELSE IF changes THEN Outdated(rcRun[d], t, s)
                                       ELSE rcRun[d]]

GiveUp(c) == Set(c, Advanced(rcRun[c])) /\ UNCHANGED rcStore

\* isRetryable: applyEdit tries once more from fresh state, zone import does not.
Conflict(c) ==
    /\ IF rcRun[c].attempt = 0 /\ rcRun[c].in.verb # "import"
       THEN Set(c, [rcRun[c] EXCEPT !.at = "refetch"])
       ELSE Set(c, Advanced(rcRun[c]))
    /\ UNCHANGED rcStore

\* A fault: the write without the optimistic lock.
LastOneWins(copy) == FALSE

\* MergeFromWithOptimisticLock, the precondition of Delete, and Update's version.
Rejected(copy) == ~copy.fresh

\* One round of applyEdit, with createSet, and bulkWriteSet.
Write(c) ==
    LET r == rcRun[c]
        t == Head(r.todo)
        copy == r.copies[t]
        edit == EditOf(r, t, copy.set.recs)
    IN /\ r.at = "write"
       /\ CASE ~edit.ok -> GiveUp(c)
            [] edit.ok /\ copy.slot = 0 /\ edit.recs = <<>> -> GiveUp(c)
            [] edit.ok /\ copy.slot = 0 /\ edit.recs # <<>> ->
                 IF rcStore[t][Conventional].there THEN Conflict(c)
                 ELSE Put(c, t, Conventional, Object(FALSE, edit.recs))
            [] edit.ok /\ copy.slot # 0 ->
                 IF ~rcStore[t][copy.slot].there THEN GiveUp(c)
                 ELSE IF Rejected(copy) THEN Conflict(c)
                 ELSE Put(c, t, copy.slot, Object(copy.set.machine, edit.recs))
       /\ UNCHANGED rcBudget

\* The second attempt of applyEdit.  The guard is not asked again.
Refetch(c) ==
    LET r == rcRun[c]
        t == Head(r.todo)
    IN /\ r.at = "refetch"
       /\ Set(c, [r EXCEPT !.copies[t] = findSet(t, IF Targeted(r.in) THEN r.in.owner ELSE ""),
                           !.at = "write", !.attempt = 1])
       /\ UNCHANGED <<rcStore, rcBudget>>

\* A call that fails for another reason than a conflict.
CallFails(c) ==
    /\ \/ rcRun[c].at = "read" /\ End(c)
       \/ rcRun[c].at \in {"write", "refetch"} /\ Set(c, Advanced(rcRun[c]))
    /\ UNCHANGED <<rcStore, rcBudget>>

----------------------------------------------------------------------------
(* The other writers. *)

ForeignPut(t, s, set) ==
    /\ rcBudget.writes > 0
    /\ rcBudget' = [rcBudget EXCEPT !.writes = @ - 1]
    /\ Store(t, s, set)
    /\ rcRun' = [d \in Commands |-> Outdated(rcRun[d], t, s)]

\* The portal adds or removes an entry of a set of the user's.
Portal(t, s) ==
    LET recs == rcStore[t][s].recs
    IN /\ ~rcStore[t][s].machine
       /\ \/ \E e \in ForeignEntries :
                /\ Len(recs) < MaxEntries
                /\ ValidateEntries(t, Append(recs, e))
                /\ rcStore[t][s].there \/ s = Conventional
                /\ ForeignPut(t, s, Object(FALSE, Append(recs, e)))
          \/ \E i \in DOMAIN recs : ForeignPut(t, s, Object(FALSE, RemoveAt(recs, i)))

\* The Gateway controller keeps a set of its own, under a name of its own.
Gateway(t, s) ==
    /\ s # Conventional
    /\ ~rcStore[t][s].there \/ rcStore[t][s].machine
    /\ \/ \E e \in ForeignEntries :
             /\ ValidateEntries(t, <<e>>)
             /\ rcStore[t][s].recs # <<e>>
             /\ ForeignPut(t, s, Object(TRUE, <<e>>))
       \/ rcStore[t][s].there /\ ForeignPut(t, s, NoSet)

\* ensureSOARecordSet and ensureNSRecordSet: only while the zone has no such set.
Operator(t) ==
    /\ t \in {"SOA", "NS"}
    /\ \A s \in Present(t) : entriesForOwner(rcStore[t][s].recs, "@") = <<>>
    /\ ForeignPut(t, Conventional, Object(FALSE, <<Delegation>>))

CommandsNext ==
    \/ \E c \in Commands :
          \/ \E in \in Inputs : Run(c, in)
          \/ Read(c) \/ Answer(c) \/ Write(c) \/ Refetch(c) \/ CallFails(c)
    \/ \E t \in Types, s \in Slots : Portal(t, s) \/ Gateway(t, s)
    \/ \E t \in Types : Operator(t)

----------------------------------------------------------------------------
(* Properties. *)

\* The command took a step at a write, so a change of the zone is its own.
Wrote(c) == rcRun[c].at = "write" /\ (rcRun'[c].at # "write" \/ rcRun'[c].todo # rcRun[c].todo)

PlatformPart(t, recs) == SelectSeq(recs, LAMBDA e : IsPlatformShape(t, FQDN(e)))

\* What a command may not touch in the list `old` of type t, with `new` after it.
Spares(in, t, old, new) ==
    CASE Targeted(in) -> IF t = in.type THEN Others(old, in.owner) = Others(new, in.owner)
                         ELSE old = new
      [] in.verb \in {"apply", "import"} ->
            /\ PlatformPart(t, old) = PlatformPart(t, new)
            /\ in.option \/ \A e \in Range(old) :
                  e \in Range(new) \/ \E f \in Range(in.file) : sameOwner(e, FQDN(f.entry))

\* A command that edits one name leaves every record at another name as it is,
\* apply and import keep the SOA and the apex NS records, and without --prune
\* or --replace every record whose name the file does not mention, whatever the
\* portal, the operator, the Gateway controller and other commands write between
\* the command's read and its write (applyEdit, plan.resolve, bulkWriteSet).
UnnamedSurvives ==
    \A c \in Commands : Wrote(c) =>
        \A t \in Types, s \in Slots :
            Spares(rcRun[c].in, t, rcStore[t][s].recs, rcStore'[t][s].recs)
=============================================================================
