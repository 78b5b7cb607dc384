------------------------- MODULE AccountAssignment -------------------------
(***************************************************************************)
(* The assignment of blocks of ad accounts to one drama                    *)
(* (AccountAssignmentService.assign): find the first free block of each    *)
(* kind in the account sheet, append a copy of an older block when there   *)
(* is none, look again, write the drama's name, read it back, and record   *)
(* the CIDs as used on that day.                                           *)
(*                                                                         *)
(* People edit the sheet at any time; every call to it may fail.  The      *)
(* record of used CIDs is part of the executor's transaction.              *)
(***************************************************************************)
EXTENDS Integers, Sequences, SequencesExt, FiniteSetsExt

CONSTANTS
    Drama,          \* the dramas to deliver
    Links,          \* the links of each: LinkTypes
    DayOf,          \* the business day of each
    Cid,
    Configured,     \* CIDs with one complete delivery configuration
    Size,           \* how many rows of each group a block has (3, 3, 3, 1; 3, 3)
    InitialSheets,  \* what the account sheets may hold
    Nobody, Other,  \* an empty name cell; a name written by people
    IncludeTest,
    MaxEdits        \* bound on edits by people

LinkTypes == {"IAA", "9.9", "2.9"}
Kinds == {"IAA", "IAP"}
IaaGroups == <<"B1", "B4", "B7", "BX">>
Groups == ToSet(IaaGroups) \cup {"B1-9.9", "B2-2.9"}

\* A row of group "" lacks its group or its CID.
AccountRow == [group : Groups \cup {""}, cid : Cid, drama : Drama \cup {Nobody, Other},
               enabled : BOOLEAN, test : BOOLEAN]

\* Where a group stands in its block.
Rank(g) == IF g \in {"B1", "B1-9.9"} THEN 1 ELSE IF g \in {"B4", "B2-2.9"} THEN 2
           ELSE IF g = "B7" THEN 3 ELSE 4

Filled(s) == {i \in DOMAIN s : s[i].group # ""}

\* A CID that occurs twice in a sheet occurs in two blocks, as a copy leaves it: between the
\* two a new block begins, and the last block goes beyond its first group.
RepeatsApart(s) ==
    \A i, j \in Filled(s) : i < j /\ s[i].cid = s[j].cid =>
        /\ \E m, n \in Filled(s) :
              i <= m /\ m < n /\ n <= j /\ Rank(s[n].group) < Rank(s[m].group)
        /\ \A last \in Filled(s) :
              (\A n \in Filled(s) : n <= last) => Rank(s[last].group) > 1

ASSUME AccountAssumption ==
    /\ Links \in [Drama -> SUBSET LinkTypes] /\ Configured \subseteq Cid
    /\ Size \in [Groups -> Nat \ {0}] /\ IncludeTest \in BOOLEAN /\ MaxEdits \in Nat
    /\ InitialSheets \subseteq [Kinds -> Seq(AccountRow)]
    /\ \A s \in InitialSheets : \A k \in Kinds : RepeatsApart(s[k])

VARIABLES
    sheet,      \* the two account sheets, row by row
    usage,      \* the CIDs used so far: [day, drama, cid]
    pending,    \* those the current transaction has recorded
    assign,     \* the assignment in progress
    edits

accountVars == <<sheet, usage, pending, assign, edits>>

\* at: the row numbers of a planned block; todo: rows whose name is not written yet.
NoAssign == [pc |-> "idle", drama |-> Nobody, real |-> TRUE, used |-> {}, reserved |-> {},
             planned |-> <<>>, accounts |-> <<>>, template |-> <<>>, last |-> 0, k |-> 0, todo |-> {},
             written |-> FALSE, status |-> ""]

AccountInit ==
    /\ sheet \in InitialSheets
    /\ usage = {} /\ pending = {}
    /\ assign = NoAssign
    /\ edits = 0

-----------------------------------------------------------------------------
(* Blocks.                                                                  *)

Repeat(g) == [i \in 1 .. Size[g] |-> g]
IaaBlock == Repeat("B1") \o Repeat("B4") \o Repeat("B7") \o Repeat("BX")
IapBlock == Repeat("B1-9.9") \o Repeat("B2-2.9")
BlockDefinition(kind) == IF kind = "IAA" THEN IaaBlock ELSE IapBlock

\* Mutant: one paid type is enough.
FirstPattern(kind, types) ==
    IF kind = "IAA" THEN IaaBlock
    ELSE IF "9.9" \in types THEN Repeat("B1-9.9") ELSE Repeat("B2-2.9")

RequiredPattern(kind, types) ==
    IF kind = "IAA" THEN IaaBlock
    ELSE (IF "9.9" \in types THEN Repeat("B1-9.9") ELSE <<>>)
         \o (IF "2.9" \in types THEN Repeat("B2-2.9") ELSE <<>>)

\* The rows as they are read: those without a group or a CID are dropped.
ReadAccountRows(kind) ==
    LET s == sheet[kind]
        read[n \in 0 .. Len(s)] ==  \* ... of the first n rows
            IF n = 0 THEN <<>>
            ELSE IF s[n].group = "" THEN read[n - 1]
            ELSE Append(read[n - 1],
                        [at |-> n, group |-> s[n].group, cid |-> s[n].cid, drama |-> s[n].drama,
                         enabled |-> s[n].enabled, test |-> s[n].test])
    IN read[Len(s)]

\* Where windows of rows have these groups, in this order, and all fit.
Starts(rows, pattern, fitting) ==
    {n \in 1 .. Len(rows) - Len(pattern) + 1 :
        \A i \in DOMAIN pattern : rows[n + i - 1].group = pattern[i] /\ n + i - 1 \in fitting}

Window(rows, pattern, n) == SubSeq(rows, n, n + Len(pattern) - 1)

\* The first free block, or none.
FindBlock(rows, allocated, pattern) ==
    LET free   == {n \in DOMAIN rows : LET r == rows[n] IN
                      r.enabled /\ r.drama = Nobody /\ r.cid \notin allocated}
        starts == Starts(rows, pattern, free)
    IN IF pattern = <<>> \/ starts = {} THEN <<>> ELSE Window(rows, pattern, Min(starts))

\* The last whole block that could be copied: its names do not matter.
LatestAppendTemplate(rows, kind, used) ==
    LET usable == {n \in DOMAIN rows : rows[n].enabled /\ rows[n].cid \notin used}
        starts == Starts(rows, BlockDefinition(kind), usable)
    IN IF starts = {} THEN <<>> ELSE Window(rows, BlockDefinition(kind), Max(starts))

Appended(last, template) ==
    [n \in DOMAIN template |->
        [template[n] EXCEPT !.at = last + n, !.drama = Nobody, !.test = FALSE]]

CidsOf(rows) == {rows[n].cid : n \in DOMAIN rows}
NamedCids(rows) == {rows[n].cid : n \in {m \in DOMAIN rows : rows[m].drama # Nobody}}

\* The first enabled B4 row that is no test account yet.
TestRow(rows) ==
    LET fit == {n \in DOMAIN rows : rows[n].group = "B4" /\ rows[n].enabled /\ ~rows[n].test}
    IN IF fit = {} THEN 0 ELSE rows[Min(fit)].at

\* The accounts of the planned blocks, of which there are at most two.
AccountsOf(block) ==
    [n \in DOMAIN block.rows |->
        [role |-> block.rows[n].group, cid |-> block.rows[n].cid,
         test |-> \/ block.rows[n].test
                  \/ IncludeTest /\ block.rows[n].at = TestRow(block.rows)]]

Accounts(planned) ==
    IF planned = <<>> THEN <<>>
    ELSE IF Len(planned) = 1 THEN AccountsOf(planned[1])
    ELSE AccountsOf(planned[1]) \o AccountsOf(planned[2])

CandidatesValid(accounts) == CidsOf(accounts) \subseteq Configured

StillAvailable(expected, latest) ==
    \A n \in DOMAIN expected : \E m \in DOMAIN latest :
        /\ latest[m].at = expected[n].at /\ latest[m].cid = expected[n].cid
        /\ latest[m].group = expected[n].group
        /\ latest[m].enabled /\ latest[m].drama = Nobody

WriteConfirmed(expected, latest, drama) ==
    \A n \in DOMAIN expected : \E m \in DOMAIN latest :
        /\ latest[m].at = expected[n].at /\ latest[m].cid = expected[n].cid
        /\ latest[m].drama = drama
        /\ IncludeTest /\ expected[n].at = TestRow(expected) => latest[m].test

\* The first of the contiguous runs that the rows to write are grouped into.
FirstGroup(todo) ==
    {i \in todo : \A j \in Min(todo) .. i : j \in todo}

-----------------------------------------------------------------------------
(* Planning.                                                                *)

PaidTypes(d) == Links[d] \cap {"9.9", "2.9"}
Needs(d, kind) == IF kind = "IAA" THEN "IAA" \in Links[d] ELSE PaidTypes(d) # {}
AfterIaa(d) == IF Needs(d, "IAP") THEN "IAP" ELSE "planned"

BeginAssign(d, real) ==
    LET used == {u.cid : u \in {v \in usage : v.day = DayOf[d]}}
    IN assign' = [NoAssign EXCEPT !.pc = IF Needs(d, "IAA") THEN "IAA" ELSE AfterIaa(d),
                                  !.drama = d, !.real = real, !.used = used, !.reserved = used]

Planning == assign.pc \in Kinds
Pattern == RequiredPattern(assign.pc, PaidTypes(assign.drama))
Ended(status) ==
    [NoAssign EXCEPT !.pc = "done", !.status = status, !.real = assign.real,
                     !.accounts = IF status = "CONFIRMED" THEN assign.accounts ELSE <<>>]

\* What a planned block adds; the sets matter as long as a kind is to follow.
Planned(kind, rows, a) ==
    LET next == IF kind = "IAA" THEN AfterIaa(a.drama) ELSE "planned"
        more(S) == IF next = "planned" THEN {} ELSE S \cup CidsOf(rows)
    IN [a EXCEPT !.pc = next, !.planned = Append(@, [kind |-> kind, rows |-> rows]),
                 !.used = more(@), !.reserved = more(@), !.template = <<>>, !.last = 0]

\* Mutant: the CIDs that are reserved already are not excluded.
PlanUnreserved ==
    LET rows == ReadAccountRows(assign.pc)
        block == FindBlock(rows, NamedCids(rows), Pattern)
    IN /\ Planning /\ block # <<>>
       /\ assign' = Planned(assign.pc, block, assign)
       /\ UNCHANGED <<sheet, usage, pending, edits>>

\* CIDs that occur in a row with a name are as good as used.
PlanBlock ==
    LET rows == ReadAccountRows(assign.pc)
        reserved == assign.reserved \cup NamedCids(rows)
        block == FindBlock(rows, reserved, Pattern)
    IN /\ Planning /\ block # <<>>
       /\ assign' = Planned(assign.pc, block, [assign EXCEPT !.reserved = reserved])
       /\ UNCHANGED <<sheet, usage, pending, edits>>

\* No free block: a copy of an older one is planned, with the CIDs used today, but
\* not those that carry a name, excluded.
PlanAppend ==
    LET kind == assign.pc
        rows == ReadAccountRows(kind)
        reserved == assign.reserved \cup NamedCids(rows)
        template == LatestAppendTemplate(rows, kind, assign.used)
        last == IF rows = <<>> THEN 1 ELSE rows[Len(rows)].at
        preview == FindBlock(Appended(last, template), assign.used, Pattern)
    IN /\ Planning /\ FindBlock(rows, reserved, Pattern) = <<>>
       /\ assign' =
            IF template = <<>> \/ preview = <<>> THEN Ended("UNAVAILABLE")
            ELSE IF ~CandidatesValid(preview) THEN Ended("CONFLICT")
            ELSE IF ~assign.real
                 THEN Planned(kind, preview, [assign EXCEPT !.reserved = reserved])
            ELSE [assign EXCEPT !.pc = IF kind = "IAA" THEN "appendIAA" ELSE "appendIAP",
                                !.reserved = reserved, !.template = template, !.last = last]
       /\ UNCHANGED <<sheet, usage, pending, edits>>

Appending == assign.pc \in {"appendIAA", "appendIAP"}
AppendKind == IF assign.pc = "appendIAA" THEN "IAA" ELSE "IAP"

Written(rows) ==
    [n \in DOMAIN rows |-> [group |-> rows[n].group, cid |-> rows[n].cid, drama |-> rows[n].drama,
                            enabled |-> rows[n].enabled, test |-> rows[n].test]]

\* The copy goes below the last row that was read, whatever is there by now.
AppendBlock ==
    LET rows == Appended(assign.last, assign.template)
        block == FindBlock(rows, assign.used,
                           RequiredPattern(AppendKind, PaidTypes(assign.drama)))
    IN /\ Appending
       /\ sheet' = [sheet EXCEPT ![AppendKind] =
             SubSeq(@, 1, assign.last) \o Written(rows)
             \o SubSeq(@, assign.last + Len(rows) + 1, Len(@))]
       /\ assign' = Planned(AppendKind, block, assign)
       /\ UNCHANGED <<usage, pending, edits>>

AppendFails ==
    /\ Appending
    /\ assign' = Ended("CONFLICT")
    /\ UNCHANGED <<sheet, usage, pending, edits>>

\* All kinds are planned; a dry run stops here.
CheckCandidates ==
    /\ assign.pc = "planned"
    /\ LET accounts == Accounts(assign.planned) IN
       assign' = IF accounts = <<>> THEN Ended("UNAVAILABLE")
                 ELSE IF ~assign.real
                      THEN [Ended("DRY_RUN") EXCEPT !.accounts = accounts]
                 ELSE IF ~CandidatesValid(accounts) THEN Ended("CONFLICT")
                 ELSE [assign EXCEPT !.pc = "check", !.k = 1, !.accounts = accounts]
    /\ UNCHANGED <<sheet, usage, pending, edits>>

-----------------------------------------------------------------------------
(* Writing.                                                                 *)

Current == assign.planned[assign.k]
RowNumbers(rows) == {rows[n].at : n \in DOMAIN rows}
ToWrite(k) == [assign EXCEPT !.pc = "write", !.k = k,
                             !.todo = RowNumbers(assign.planned[k].rows)]

ReadAgain ==
    /\ assign.pc = "check"
    /\ assign' = IF ~StillAvailable(Current.rows, ReadAccountRows(Current.kind))
                 THEN Ended("CONFLICT")
                 ELSE IF assign.k < Len(assign.planned) THEN [assign EXCEPT !.k = @ + 1]
                 ELSE ToWrite(1)
    /\ UNCHANGED <<sheet, usage, pending, edits>>

\* One call writes one contiguous group of rows.
WriteAccountNames ==
    LET group == FirstGroup(assign.todo) IN
    /\ assign.pc = "write"
    /\ sheet' = [sheet EXCEPT ![Current.kind] =
          [i \in DOMAIN @ |-> IF i \in group THEN [@[i] EXCEPT !.drama = assign.drama]
                              ELSE @[i]]]
    /\ assign' = [assign EXCEPT !.todo = @ \ group, !.written = @ \/ assign.todo = group,
                    !.pc = IF assign.todo # group THEN "write"
                           ELSE IF IncludeTest /\ TestRow(Current.rows) # 0 THEN "flag"
                           ELSE "readBack"]
    /\ UNCHANGED <<usage, pending, edits>>

WriteTestFlag ==
    /\ assign.pc = "flag"
    /\ sheet' = [sheet EXCEPT ![Current.kind][TestRow(Current.rows)].test = TRUE]
    /\ assign' = [assign EXCEPT !.pc = "readBack"]
    /\ UNCHANGED <<usage, pending, edits>>

ReadBack ==
    /\ assign.pc = "readBack"
    /\ assign' = IF ~WriteConfirmed(Current.rows, ReadAccountRows(Current.kind), assign.drama)
                 THEN Ended("PARTIAL_WRITE")
                 ELSE IF assign.k < Len(assign.planned) THEN ToWrite(assign.k + 1)
                 ELSE [assign EXCEPT !.pc = "record"]
    /\ UNCHANGED <<sheet, usage, pending, edits>>

\* One of the calls fails: the first block's names may be partly written by then.
WriteFails ==
    /\ assign.pc \in {"write", "flag", "readBack"}
    /\ assign' = Ended(IF assign.written THEN "PARTIAL_WRITE" ELSE "CONFLICT")
    /\ UNCHANGED <<sheet, usage, pending, edits>>

UsageConflict ==
    \/ Cardinality(CidsOf(assign.accounts)) # Len(assign.accounts)
    \/ \E u \in usage : u.day = DayOf[assign.drama] /\ u.cid \in CidsOf(assign.accounts)

RecordConfirmed ==
    /\ assign.pc = "record"
    /\ IF UsageConflict
       THEN assign' = Ended("PARTIAL_WRITE") /\ UNCHANGED pending
       ELSE /\ assign' = Ended("CONFIRMED")
            /\ pending' = {[day |-> DayOf[assign.drama], drama |-> assign.drama, cid |-> c]
                              : c \in CidsOf(assign.accounts)}
    /\ UNCHANGED <<sheet, usage, edits>>

AssignNext ==
    \/ AppendFails \/ WriteFails
    \/ PlanBlock \/ PlanAppend \/ AppendBlock \/ CheckCandidates
    \/ ReadAgain \/ WriteAccountNames \/ WriteTestFlag \/ ReadBack \/ RecordConfirmed

\* People write and erase names, and switch rows on and off: any time will do in which
\* the sheet is read.
EditSheet ==
    /\ edits < MaxEdits /\ assign.pc \notin {"idle", "done"}
    /\ edits' = edits + 1
    /\ \E kind \in Kinds : \E i \in DOMAIN sheet[kind] :
          \E drama \in {Nobody, Other, sheet[kind][i].drama}, enabled \in BOOLEAN :
             sheet' = [sheet EXCEPT ![kind][i].drama = drama, ![kind][i].enabled = enabled]
    /\ UNCHANGED <<usage, pending, assign>>

-----------------------------------------------------------------------------
(* Properties.                                                              *)

AssignPcs == {"idle", "IAA", "IAP", "appendIAA", "appendIAP", "planned", "check", "write",
              "flag", "readBack", "record", "done"}

AccountTypeOK ==
    /\ sheet \in [Kinds -> Seq(AccountRow)]
    /\ \A u \in usage \cup pending : u.drama \in Drama /\ u.cid \in Cid /\ u.day = DayOf[u.drama]
    /\ assign.pc \in AssignPcs
    /\ assign.pc \in {"write", "flag", "readBack"} => assign.k \in DOMAIN assign.planned
    /\ edits \in 0 .. MaxEdits

\* Names are written only for CIDs that can be recorded afterwards: no CID occurs
\* twice in what is planned, nor is it used on that day.  What is excluded is handed
\* from IAA to IAP and from the search to the copy (account_assignment_service.py:51-116).
WrittenIsRecordable ==
    assign.pc \in {"write", "flag", "readBack", "record"} => ~UsageConflict
=============================================================================
