------------------------------- MODULE Database -------------------------------
(***************************************************************************)
(* The MySQL chat database of internal/mcp/session/redis.go (package      *)
(* database, lines 305-466), used concurrently by the request goroutines  *)
(* Clients.  Every GORM call is one SQL statement, atomic in MySQL; a     *)
(* goroutine may run between two statements of one method.                *)
(*                                                                         *)
(*   - init_states: the single row "system" (initRow);                     *)
(*   - messages of one session: message id and timestamp (msgs); the     *)
(*     session filter of the queries is left out;                         *)
(*   - users: one user row, its fields abstracted to a value (userRow);   *)
(*   - sessions: per session id, its title (sessRow); CreatedAt is set   *)
(*     once, by the Create, and is left out.                               *)
(*                                                                         *)
(* A statement that fails, or a Create that hits a duplicate key, changes *)
(* nothing; it is a stuttering step except where the method goes on.     *)
(* SessionExists and GetSessions are single reads that change nothing.   *)
(***************************************************************************)
EXTENDS Naturals, Sequences, SequencesExt, Functions

CONSTANTS
    Clients,    \* request goroutines calling the database
    MsgIds,     \* message ids the callers generate
    Stamps,     \* timestamps the callers give messages
    Vals,       \* contents of a user row
    SessIds,    \* chat session ids
    Titles,     \* titles UpdateSessionTitle may set
    PageSize,   \* pageSize of GetMessagesWithPagination
    DbFaults,   \* whether a statement may fail (connection, timeout)
    Ties,       \* whether two messages may carry the same timestamp
    None        \* no row, no value (a model value)

ASSUME /\ Stamps \subseteq Nat /\ PageSize \in Nat \ {0}
       /\ DbFaults \in BOOLEAN /\ Ties \in BOOLEAN /\ "" \notin Titles

VARIABLES
    initRow,  \* IsInitialized of the init_states row, or None
    msgs,     \* rows of messages: [id, ts]
    userRow,  \* the user row, or None
    sessRow,  \* sessRow[s]: the title of session s's row, or None
    pc,       \* pc[c]: "idle", "create" (GetInitState), "page" (paging)
    res,      \* res[c]: how c's last GetInitState returned
    held,     \* held[c]: the user c read with GetUserByUsername, or None
    page,     \* page[c]: next page c asks for
    got,      \* got[c]: message ids c has read, page after page
    done,     \* done[c]: c's last paging ended with a short page
    quiet,    \* quiet[c]: no message saved since c began paging
    lastSet   \* IsInitialized of the last SetInitState, or None

vars == <<initRow, msgs, userRow, sessRow, pc, res, held, page, got, done, quiet, lastSet>>

MsgIdsOf(S) == {m.id : m \in S}

Init ==
    /\ initRow = None
    /\ msgs = {}
    /\ userRow = None
    /\ sessRow = [s \in SessIds |-> None]
    /\ pc = [c \in Clients |-> "idle"]
    /\ res = [c \in Clients |-> "none"]
    /\ held = [c \in Clients |-> None]
    /\ page = [c \in Clients |-> 1]
    /\ got = [c \in Clients |-> <<>>]
    /\ done = [c \in Clients |-> FALSE]
    /\ quiet = [c \in Clients |-> TRUE]
    /\ lastSet = None

-----------------------------------------------------------------------------
(* init_states *)

\* GetInitState (441-446, returns at 456-460): First; the row found is
\* returned, a missing row leads to the Create, any other error is
\* returned.
GetInitState(c) ==
    /\ pc[c] = "idle"
    /\ \/ initRow # None /\ res' = [res EXCEPT ![c] = "ok"] /\ UNCHANGED pc
       \/ initRow = None /\ pc' = [pc EXCEPT ![c] = "create"] /\ UNCHANGED res
       \/ DbFaults /\ res' = [res EXCEPT ![c] = "error"] /\ UNCHANGED pc
    /\ UNCHANGED <<sessRow, initRow, msgs, userRow, held, page, got, done, quiet, lastSet>>

\* Mutant of CreateInitState: the default row written with Save, an
\* upsert, instead of Create.
CreateInitStateAsSave(c) ==
    /\ pc[c] = "create"
    /\ pc' = [pc EXCEPT ![c] = "idle"]
    /\ \/ initRow' = FALSE /\ res' = [res EXCEPT ![c] = "ok"]
       \/ DbFaults /\ res' = [res EXCEPT ![c] = "error"] /\ UNCHANGED initRow
    /\ UNCHANGED <<sessRow, msgs, userRow, held, page, got, done, quiet, lastSet>>

\* GetInitState (447-455): Create the default row "system", not yet
\* initialized; a duplicate key (a row created since the First) or any
\* other error is returned.
CreateInitState(c) ==
    /\ pc[c] = "create"
    /\ pc' = [pc EXCEPT ![c] = "idle"]
    /\ \/ initRow = None /\ initRow' = FALSE /\ res' = [res EXCEPT ![c] = "ok"]
       \/ initRow # None /\ res' = [res EXCEPT ![c] = "error"] /\ UNCHANGED initRow
       \/ DbFaults /\ res' = [res EXCEPT ![c] = "error"] /\ UNCHANGED initRow
    /\ UNCHANGED <<sessRow, msgs, userRow, held, page, got, done, quiet, lastSet>>

\* SetInitState (464-466): Save, which updates the row or inserts it.
SetInitState(c, v) ==
    /\ pc[c] = "idle"
    /\ initRow' = v
    /\ lastSet' = v
    /\ UNCHANGED <<sessRow, msgs, userRow, pc, res, held, page, got, done, quiet>>

-----------------------------------------------------------------------------
(* users *)

\* CreateUser (414-417): Create; on a duplicate key nothing changes.
CreateUser(c, v) ==
    /\ pc[c] = "idle"
    /\ userRow = None
    /\ userRow' = v
    /\ UNCHANGED <<sessRow, initRow, msgs, pc, res, held, page, got, done, quiet, lastSet>>

\* GetUserByUsername (419-429): First; the caller keeps the user.
GetUserByUsername(c) ==
    /\ pc[c] = "idle"
    /\ userRow # None
    /\ held' = [held EXCEPT ![c] = userRow]
    /\ UNCHANGED <<sessRow, initRow, msgs, userRow, pc, res, page, got, done, quiet, lastSet>>

\* UpdateUser (431-434): Save of the user the caller read and changed to
\* v.  Save updates by primary key, or inserts the row when none is there.
UpdateUser(c, v) ==
    /\ pc[c] = "idle"
    /\ held[c] # None
    /\ userRow' = v
    /\ held' = [held EXCEPT ![c] = None]
    /\ UNCHANGED <<sessRow, initRow, msgs, pc, res, page, got, done, quiet, lastSet>>

\* DeleteUser (436-439).
DeleteUser(c) ==
    /\ pc[c] = "idle"
    /\ userRow # None
    /\ userRow' = None
    /\ UNCHANGED <<sessRow, initRow, msgs, pc, res, held, page, got, done, quiet, lastSet>>

-----------------------------------------------------------------------------
(* sessions *)

\* CreateSession (381-387): Create a row with an empty title; when the id
\* already has a row the duplicate key fails the insert and nothing
\* changes.
CreateSession(c, s) ==
    /\ pc[c] = "idle"
    /\ sessRow[s] = None
    /\ sessRow' = [sessRow EXCEPT ![s] = ""]
    /\ UNCHANGED <<initRow, msgs, userRow, pc, res, held, page, got, done, quiet, lastSet>>

\* UpdateSessionTitle (389-394): UPDATE sessions SET title WHERE id; for
\* an id without a row it matches nothing, returns nil and is a
\* stuttering step.
UpdateSessionTitle(c, s, t) ==
    /\ pc[c] = "idle"
    /\ sessRow[s] # None
    /\ sessRow' = [sessRow EXCEPT ![s] = t]
    /\ UNCHANGED <<initRow, msgs, userRow, pc, res, held, page, got, done, quiet, lastSet>>

-----------------------------------------------------------------------------
(* messages *)

\* SaveMessage (356-358): Create a message with a fresh id and the
\* timestamp the caller set (time.Now() when it built the message).
SaveMessage(c, m, t) ==
    /\ pc[c] = "idle"
    /\ m \notin MsgIdsOf(msgs)
    /\ Ties \/ \A x \in msgs : x.ts # t
    /\ msgs' = msgs \cup {[id |-> m, ts |-> t]}
    /\ quiet' = [x \in Clients |-> FALSE]
    /\ UNCHANGED <<sessRow, initRow, userRow, pc, res, held, page, got, done, lastSet>>

\* The orders in which MySQL may return rows for Order("timestamp asc"):
\* any order of rows with equal timestamps, chosen anew by every query.
Ordered(S) == {s \in SetToSeqs(S) : IsSorted(s, LAMBDA a, b : a.ts <= b.ts)}

\* Mutant of PageOffset: the page counted from zero.
PageOffsetFromZero(p, size) == p * size

\* offset := (page - 1) * pageSize (371); GORM writes OFFSET only when it
\* is positive.
PageOffset(p, size) == IF (p - 1) * size > 0 THEN (p - 1) * size ELSE 0

\* Offset(offset).Limit(pageSize) on the ordered rows s (374-375).
Page(s, p, size) ==
    LET off == PageOffset(p, size)
        last == IF off + size < Len(s) THEN off + size ELSE Len(s)
    IN  IF off >= Len(s) THEN <<>> ELSE SubSeq(s, off + 1, last)

\* A caller reading the whole conversation page by page, from page 1 on.
BeginPaging(c) ==
    /\ pc[c] = "idle"
    /\ pc' = [pc EXCEPT ![c] = "page"]
    /\ page' = [page EXCEPT ![c] = 1]
    /\ got' = [got EXCEPT ![c] = <<>>]
    /\ done' = [done EXCEPT ![c] = FALSE]
    /\ quiet' = [quiet EXCEPT ![c] = TRUE]
    /\ UNCHANGED <<sessRow, initRow, msgs, userRow, res, held, lastSet>>

\* GetMessagesWithPagination (369-379): the pages the query may return for
\* page p: Offset/Limit applied to the rows in one of their orders.
GetMessagesWithPagination(p, size) == {Page(s, p, size) : s \in Ordered(msgs)}

\* The caller reading the conversation (no such loop is in src): one
\* GetMessagesWithPagination per step for page[c]; a page shorter than
\* pageSize is the last one, and a failed query ends the reading.
ReadNextPage(c) ==
    /\ pc[c] = "page"
    /\ \/ \E rows \in GetMessagesWithPagination(page[c], PageSize) :
             /\ got' = [got EXCEPT ![c] = @ \o [i \in DOMAIN rows |-> rows[i].id]]
             /\ IF Len(rows) < PageSize
                THEN /\ pc' = [pc EXCEPT ![c] = "idle"]
                     /\ done' = [done EXCEPT ![c] = TRUE]
                     /\ UNCHANGED page
                ELSE /\ page' = [page EXCEPT ![c] = @ + 1]
                     /\ UNCHANGED <<pc, done>>
       \/ DbFaults /\ pc' = [pc EXCEPT ![c] = "idle"] /\ UNCHANGED <<got, done, page>>
    /\ UNCHANGED <<sessRow, initRow, msgs, userRow, res, held, quiet, lastSet>>

-----------------------------------------------------------------------------
Next ==
    \E c \in Clients :
        \/ GetInitState(c) \/ CreateInitState(c)
        \/ \E v \in BOOLEAN : SetInitState(c, v)
        \/ \E v \in Vals : CreateUser(c, v) \/ UpdateUser(c, v)
        \/ GetUserByUsername(c) \/ DeleteUser(c)
        \/ \E s \in SessIds : CreateSession(c, s) \/ \E t \in Titles : UpdateSessionTitle(c, s, t)
        \/ \E m \in MsgIds, t \in Stamps : SaveMessage(c, m, t)
        \/ BeginPaging(c) \/ ReadNextPage(c)

Spec == Init /\ [][Next]_vars

-----------------------------------------------------------------------------
TypeOK ==
    /\ initRow \in BOOLEAN \cup {None}
    /\ msgs \subseteq [id : MsgIds, ts : Stamps]
    /\ userRow \in Vals \cup {None}
    /\ sessRow \in [SessIds -> Titles \cup {"", None}]
    /\ pc \in [Clients -> {"idle", "create", "page"}]
    /\ res \in [Clients -> {"none", "ok", "error"}]
    /\ held \in [Clients -> Vals \cup {None}]
    /\ page \in [Clients -> 1..(Cardinality(MsgIds) \div PageSize) + 1]
    /\ got \in [Clients -> Seq(MsgIds)]
    /\ done \in [Clients -> BOOLEAN]
    /\ quiet \in [Clients -> BOOLEAN]
    /\ lastSet \in BOOLEAN \cup {None}

\* GetInitState never overwrites a state that SetInitState saved: once a
\* SetInitState has run, the row holds the value it saved, even when a
\* GetInitState that found no row creates its default concurrently.
InitStateKept == lastSet # None => initRow = lastSet

\* GetInitState returns an error only when the database fails: when no
\* row exists it creates one (comment at line 446), whoever else calls it.
GetInitStateSucceeds == \A c \in Clients : res[c] # "error"

\* Reading a conversation with GetMessagesWithPagination page after page,
\* with no message saved meanwhile, returns every message exactly once.
PagesPartition ==
    \A c \in Clients :
        done[c] /\ quiet[c] =>
            /\ IsInjective(got[c])
            /\ Range(got[c]) = MsgIdsOf(msgs)

\* UpdateUser only updates an existing user (comment at line 430): a
\* deleted user reappears only through CreateUser.
NoResurrection ==
    [][userRow = None /\ userRow' # None => \E c \in Clients, v \in Vals : CreateUser(c, v)]_userRow

=============================================================================
