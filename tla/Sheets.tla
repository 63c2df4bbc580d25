------------------------------- MODULE Sheets -------------------------------
(***************************************************************************)
(* The tools of toolsets/sheets/__init__.py that depend on row numbers or  *)
(* change rows, on one sheet of a spreadsheet that Google keeps and that   *)
(* others edit too, through the retries of google/client.py; with the      *)
(* arithmetic of ranges and columns of toolsets/sheets/a1.py.              *)
(*                                                                         *)
(* A session of the assistant is one of: reading a sheet page by page      *)
(* along next_range, appending a row, update_rows_by_key, and find_rows    *)
(* followed by an update_range of the row found.  Looking up the sheet's   *)
(* title before a read (resolve) is one more request in which the sheet    *)
(* may change, as it may while the read itself is under way.               *)
(***************************************************************************)
EXTENDS Integers, Sequences, FiniteSets

CONSTANTS
    Calls,        \* sessions
    Keys,         \* contents of the key column
    CAP,          \* the setting read_row_cap
    PAGE,         \* rows in a next_range
    MAX_RETRIES,
    MaxRows,      \* bound: rows below the header at first
    MaxEdits,     \* bound: edits by others
    Faults        \* which of FaultKinds may happen

FaultKinds == {"lost",    \* Google carries out a request and its answer is lost
               "blank"}   \* there are blank rows among the others

ASSUME BoundsAssumption ==
    /\ CAP \in Nat \ {0} /\ PAGE \in Nat \ {0} /\ MAX_RETRIES \in Nat
    /\ MaxRows \in Nat /\ MaxEdits \in Nat

\* The content of an empty cell, and the author of a row no session wrote.
NoKey == ""
Nobody == "nobody"

ASSUME NamesAssumption == NoKey \notin Keys /\ Nobody \notin Calls

VARIABLES
    sheet,      \* the rows: [key, by], by = whoever wrote the row last
    call,       \* of each session where it stands, and its locals
    edits,      \* edits by others so far
    shifted     \* history: sessions during which rows have changed place

vars == <<sheet, call, edits, shifted>>

Blank == [key |-> NoKey, by |-> Nobody]
RowOf(k, by) == [key |-> k, by |-> by]
Header == RowOf("header", Nobody)
Kinds == {"read", "append", "update", "find"}
Rows == [key : Keys \cup {NoKey, "header"}, by : Calls \cup {Nobody}]

Idle == [at |-> "idle", kind |-> "read", key |-> NoKey, attempt |-> 0,
         first |-> 1, last |-> 0, rows |-> {}]

Sessions ==
    [at : {"idle", "reading", "writing", "done", "failed"}, kind : Kinds,
     key : Keys \cup {NoKey}, attempt : 0..MAX_RETRIES,
     first : Nat \ {0}, last : Nat, rows : SUBSET Nat]

TypeOK ==
    /\ sheet \in Seq(Rows) /\ call \in [Calls -> Sessions]
    /\ edits \in 0..MaxEdits /\ shifted \subseteq Calls

DataRows(s) == {i \in 1..Len(s) : s[i] # Blank}
LastIn(S) == IF S = {} THEN 0 ELSE CHOOSE m \in S : \A i \in S : i <= m

Init ==
    /\ \E n \in 0..MaxRows :
          \E body \in [1..n -> {RowOf(k, Nobody) : k \in Keys}
                                \cup (IF "blank" \in Faults THEN {Blank} ELSE {})] :
             sheet = <<Header>> \o body
    /\ call = [c \in Calls |-> Idle]
    /\ edits = 0 /\ shifted = {}

-----------------------------------------------------------------------------
(* Columns: a sequence of letters 1..26 and the index of the column. *)

LastColumn == 18277   \* ZZZ

ColToIndex(letters) ==
    LET n[i \in 0..Len(letters)] == IF i = 0 THEN 0 ELSE n[i - 1] * 26 + letters[i]
    IN n[Len(letters)] - 1

\* Seeded fault: no 1 is taken off before the division.
IndexToColPlain(index) ==
    LET out[n \in 0..(index + 1)] ==
            IF n = 0 THEN <<>> ELSE Append(out[n \div 26], (n % 26) + 1)
    IN out[index + 1]

IndexToCol(index) ==
    LET out[n \in 0..(index + 1)] ==
            IF n = 0 THEN <<>> ELSE Append(out[(n - 1) \div 26], ((n - 1) % 26) + 1)
    IN out[index + 1]

-----------------------------------------------------------------------------
(* Ranges and what Google returns for them. *)

\* The rows asked for: of an open range one more than the cap, to see whether it
\* is cut short.
FetchedTo(first, last) == IF last = 0 THEN first + CAP ELSE last

\* Google leaves out what is blank at the end.
RowsReturned(first, last) ==
    LET end == LastIn(DataRows(sheet) \cap (first..FetchedTo(first, last)))
    IN IF end = 0 THEN 0 ELSE end - first + 1

Truncated(first, last) == RowsReturned(first, last) > CAP
Shown(first, last) == IF Truncated(first, last) THEN CAP ELSE RowsReturned(first, last)

\* Seeded fault: the row that detects truncation is taken for shown.
NextFirstSkipping(first, shown) == first + shown + 1

\* _next_range begins there and has PAGE rows.
NextFirst(first, shown) == first + shown

\* Seeded fault: row numbers counted from the header.
MatchesFromHeader(k, shown) == {i \in 1..(shown - 1) : sheet[i + 1].key = k}

\* The index of the key column, by row number; the first row is the header.
Matches(k, shown) == {i \in 2..shown : sheet[i].key = k}

-----------------------------------------------------------------------------
(* The steps of a session.  Each of its requests goes through _request. *)

Reading(c) == call[c].at = "reading"
Writing(c) == call[c].at = "writing"

Begin(c) ==
    /\ call[c].at = "idle"
    /\ \E kind \in Kinds, key \in Keys \cup {NoKey} :
          /\ key = NoKey <=> kind = "read"
          /\ call' = [call EXCEPT ![c] =
                [Idle EXCEPT !.at = IF kind = "append" THEN "writing" ELSE "reading",
                             !.kind = kind, !.key = key]]
    /\ UNCHANGED <<sheet, edits, shifted>>

\* read_range: the assistant goes on with next_range as long as there is one.
ReadPage(c) ==
    /\ Reading(c) /\ call[c].kind = "read"
    /\ LET first == call[c].first
           shown == Shown(first, call[c].last)
           next == NextFirst(first, shown)
           rows == call[c].rows \cup (first..(first + shown - 1))
       IN IF Truncated(first, call[c].last)
          THEN call' = [call EXCEPT ![c].first = next, ![c].last = next + PAGE - 1,
                                    ![c].rows = rows, ![c].attempt = 0]
          ELSE call' = [call EXCEPT ![c].at = "done", ![c].rows = rows]
    /\ UNCHANGED <<sheet, edits, shifted>>

\* find_rows and the first half of update_rows_by_key: one read, up to the cap.
\* A find goes on with one of the rows it found.
Locate(c) ==
    /\ Reading(c) /\ call[c].kind \in {"update", "find"}
    /\ LET found == Matches(call[c].key, Shown(1, 0)) IN
       \E rows \in IF call[c].kind = "find" THEN {{i} : i \in found} \cup {{}} ELSE {found} :
          call' = [call EXCEPT ![c].rows = rows, ![c].attempt = 0,
                               ![c].at = IF rows = {} THEN "done" ELSE "writing"]
    /\ UNCHANGED <<sheet, edits, shifted>>

\* What a write does when Google carries it out: an append goes below the last
\* row with data, and the others write into the rows with the numbers given.
Written(c) ==
    IF call[c].kind = "append"
    THEN LET end == LastIn(DataRows(sheet)) IN
         SubSeq(sheet, 1, end) \o <<RowOf(call[c].key, c)>> \o SubSeq(sheet, end + 1, Len(sheet))
    ELSE [i \in 1..Len(sheet) |->
             IF i \in call[c].rows THEN RowOf(sheet[i].key, c) ELSE sheet[i]]

CarriedOut(c) ==
    /\ Writing(c)
    /\ sheet' = Written(c)
    /\ call' = [call EXCEPT ![c].at = "done"]
    /\ UNCHANGED <<edits, shifted>>

\* Seeded fault: the last retry does not count as one.
RetriesOnceMore(c) ==
    /\ call[c].attempt <= MAX_RETRIES
    /\ call' = [call EXCEPT ![c].attempt = @ + 1]

\* A status of RETRY_STATUSES or a failed transport: once more, also a POST.
Retries(c) ==
    /\ call[c].attempt < MAX_RETRIES
    /\ call' = [call EXCEPT ![c].attempt = @ + 1]

\* Any other status, the last attempt, or, after whichever attempt, the time of
\* all of them used up.
GivesUp(c) == call' = [call EXCEPT ![c].at = "failed"]

Refused(c) ==
    /\ Reading(c) \/ Writing(c)
    /\ Retries(c) \/ GivesUp(c)
    /\ UNCHANGED <<sheet, edits, shifted>>

\* A connection that breaks before the answer, or a 502 or 503 for a request
\* that was carried out.
AnswerLost(c) ==
    /\ "lost" \in Faults /\ Writing(c)
    /\ sheet' = Written(c)
    /\ Retries(c) \/ GivesUp(c)
    /\ UNCHANGED <<edits, shifted>>

Answered(c) == ReadPage(c) \/ Locate(c) \/ CarriedOut(c)

-----------------------------------------------------------------------------
(* Others at the sheet, and sort_range: rows change place. *)

Edited(rows) ==
    /\ edits < MaxEdits
    /\ edits' = edits + 1
    /\ sheet' = rows
    /\ shifted' = shifted \cup {c \in Calls : Reading(c) \/ Writing(c)}
    /\ UNCHANGED call

InsertRow(i, k) ==
    Edited(SubSeq(sheet, 1, i) \o <<RowOf(k, Nobody)>> \o SubSeq(sheet, i + 1, Len(sheet)))

SwapRows(i) ==
    Edited([sheet EXCEPT ![i] = sheet[i + 1], ![i + 1] = sheet[i]])

Next ==
    \/ \E c \in Calls : Begin(c) \/ Answered(c) \/ Refused(c) \/ AnswerLost(c)
    \/ \E i \in 1..Len(sheet), k \in Keys : InsertRow(i, k)
    \/ \E i \in 2..(Len(sheet) - 1) : SwapRows(i)

Spec == Init /\ [][Next]_vars

-----------------------------------------------------------------------------
(* Properties. *)

\* Who follows next_range until there is none has been shown every row with data
\* (DECISIONS.md:345: "when the cap truncates, the response says so and gives
\* the next range to request").  Row numbers are only comparable if rows have
\* not changed place.  With the shipped cap, CAP = PAGE, this does not hold.
ReadsToTheEnd ==
    [][\A c \in Calls :
          /\ Reading(c) /\ call[c].kind = "read" /\ c \notin shifted
          /\ call'[c].at = "done"
          => DataRows(sheet) \subseteq call'[c].rows]_vars

\* What does: the number of every row with data if a page has room for the row by
\* which read_range sees that it is cut short (__init__.py:136-140, 165-167), and in
\* any case those of the first page and of the one after it, wherever rows move.
WithinReach(i) == CAP < PAGE \/ i <= CAP + PAGE

ReadsFar ==
    [][\A c \in Calls :
          Reading(c) /\ call[c].kind = "read" /\ call'[c].at = "done"
          => {i \in DataRows(sheet) : WithinReach(i)} \subseteq call'[c].rows]_vars

\* The rows a session is the author of.
Owned(s, c) == {i \in 1..Len(s) : s[i].by = c}

\* Whichever answers are lost, and however the call ends, an append leaves at most
\* one row for each of its attempts, of which there are a limited number
\* (client.py:103-124 retries a POST; DECISIONS.md:326: "at most three retries").
AppendsBounded ==
    \A c \in Calls : call[c].kind = "append" =>
        Cardinality(Owned(sheet, c)) <= MAX_RETRIES + 1

\* An update by key or after a find gets into no row with another key, as long
\* as no rows have changed place since the session began.
KeyedWrites ==
    \A c \in Calls \ shifted : \A i \in 1..Len(sheet) :
        call[c].kind \in {"update", "find"} /\ sheet[i].by = c => sheet[i].key = call[c].key

\* Up to three letters the two conversions are inverse to each other.
RoundTrip ==
    /\ \A i \in 0..LastColumn : ColToIndex(IndexToCol(i)) = i
    /\ \A a, b \in 1..26 : IndexToCol(ColToIndex(<<a, b>>)) = <<a, b>>

\* Who writes has found its columns by index and names them by letters: these
\* are the columns meant, whichever they are (a1.py:25-33).
ColumnsRoundTrip == \A c \in Calls : Writing(c) => RoundTrip
=============================================================================
