--------------------------- MODULE RoomsAuthority ---------------------------
(***************************************************************************)
(* The Rooms authority's directory: sessions, channels and the membership  *)
(* history, and every command that changes them.  The command rules are    *)
(* those of RoomsApplication (domain/application.ts); their effects are    *)
(* the SQL statements of RoomsRepository (storage/repository.ts).          *)
(*                                                                         *)
(* Every command runs inside one SQLite transaction                        *)
(* (RoomsRepository.command), so each is one action here; a command that   *)
(* throws rolls back and is a disabled action.  The composition derives    *)
(* context.role from the stored role of the actor in the same turn, so the *)
(* role an action tests is the actor's stored role.                        *)
(*                                                                         *)
(* Abstracted: display names, labels, external ids, delivery modes and     *)
(* wall-clock times.  joinedAt keeps only the order of one session's joins *)
(* of one channel, which is what the key of table memberships and          *)
(* leaveMembership's ORDER BY look at.                                     *)
(***************************************************************************)
EXTENDS Naturals, FiniteSets

CONSTANTS
    Session,    \* session ids
    Channel,    \* channel ids
    NoSession,  \* SQL NULL in owner columns
    RoleInUse,  \* bound: the roles sessions are registered with or given
    MaxRows     \* bound: rows of the membership history

ASSUME NoSessionAssumption == NoSession \notin Session
ASSUME MaxRowsAssumption == MaxRows \in Nat \ {0}

VARIABLES
    sessions,     \* table sessions:    state, role, external owner
    channels,     \* table channels:    lifecycle state, owning operator
    memberships   \* table memberships: a set of rows, never deleted

vars == <<sessions, channels, memberships>>

Role == {"operator", "planner", "worker", "reviewer", "none"}
AssignableRole == {"planner", "worker", "reviewer"}

ASSUME RoleInUseAssumption == RoleInUse \subseteq Role

SessionRow == [state : {"absent", "live", "ended"}, role : Role,
               externalOwner : Session \cup {NoSession}]
ChannelRow == [state : {"absent", "active", "closed"},
               owner : Session \cup {NoSession}]
MembershipRow == [channel : Channel, session : Session,
                  joinedAt : 1 .. MaxRows, left : BOOLEAN, ended : BOOLEAN,
                  role : Role]

\* `ended` is session_ended_at IS NOT NULL, `left` is left_at IS NOT NULL.
TypeOK ==
    /\ sessions \in [Session -> SessionRow]
    /\ channels \in [Channel -> ChannelRow]
    /\ memberships \in SUBSET MembershipRow

Init ==
    /\ sessions = [s \in Session |->
                     [state |-> "absent", role |-> "none",
                      externalOwner |-> NoSession]]
    /\ channels = [c \in Channel |-> [state |-> "absent", owner |-> NoSession]]
    /\ memberships = {}

-----------------------------------------------------------------------------
(* Queries of the store.                                                   *)

Active(m) == ~m.left /\ ~m.ended

RowsOf(c, s) == {m \in memberships : m.channel = c /\ m.session = s}

IsActiveMember(c, s) == \E m \in memberships :
    m.channel = c /\ m.session = s /\ Active(m)

IsActiveMemberAs(c, s, r) == \E m \in memberships :
    m.channel = c /\ m.session = s /\ m.role = r /\ Active(m)

\* activeMembershipCount(c, r) > 0.
HasActiveRole(c, r) == \E m \in memberships :
    m.channel = c /\ m.role = r /\ Active(m)

\* activeMembershipCountExcept(c, r, s) > 0.
HasActiveRoleExcept(c, r, s) == \E m \in memberships :
    m.channel = c /\ m.role = r /\ m.session # s /\ Active(m)

Live(s) == sessions[s].state = "live"

\* An actor a command accepts: live, with a role (a null role is refused
\* before the command starts).
Acts(a) == Live(a) /\ sessions[a].role # "none"

LiveAs(s, r) == Live(s) /\ sessions[s].role = r

\* A live operator that owns the channel or takes part in it as an operator.
Manages(a, c) ==
    /\ LiveAs(a, "operator")
    /\ channels[c].state # "absent"
    /\ \/ channels[c].owner \in {NoSession, a}
       \/ IsActiveMemberAs(c, a, "operator")

-----------------------------------------------------------------------------
(* Row updates shared by the commands.                                     *)

\* A defect: the first join of a session has no join time.
MutantInsertMembership(c, s, r) ==
    /\ channels[c].state = "active"
    /\ memberships' =
         IF IsActiveMember(c, s) THEN memberships
         ELSE memberships \cup
                {[channel |-> c, session |-> s,
                  joinedAt |-> Cardinality(RowsOf(c, s)),
                  left |-> FALSE, ended |-> FALSE, role |-> r]}

\* insertMembership: no effect when an active row exists.
InsertMembership(c, s, r) ==
    /\ channels[c].state = "active"
    /\ memberships' =
         IF IsActiveMember(c, s) THEN memberships
         ELSE memberships \cup
                {[channel |-> c, session |-> s,
                  joinedAt |-> Cardinality(RowsOf(c, s)) + 1,
                  left |-> FALSE, ended |-> FALSE, role |-> r]}

\* Bound on the history; the store itself has none.
MayJoinAgain(c, s) ==
    IsActiveMember(c, s) \/ Cardinality(memberships) < MaxRows

\* UPDATE memberships SET session_ended_at = now for the active ones of rows.
EndRows(rows) ==
    {IF m \in rows /\ Active(m) THEN [m EXCEPT !.ended = TRUE] ELSE m :
        m \in memberships}

-----------------------------------------------------------------------------
(* Plausible defects of the commands, used to show that the properties     *)
(* below can fail.                                                         *)

\* join without the planner/reviewer count.
MutantJoin(a, c, t) ==
    /\ Live(a) /\ Live(t)
    /\ IF sessions[t].role = "worker"
       THEN sessions[a].role = "planner" /\ IsActiveMember(c, a)
       ELSE sessions[a].role = "operator" /\ channels[c].owner = a
    /\ MayJoinAgain(c, t)
    /\ InsertMembership(c, t, sessions[t].role)
    /\ UNCHANGED <<sessions, channels>>

\* updateSessionRole that changes the session and forgets its memberships.
MutantUpdateSessionRole(a, c, t, r) ==
    /\ Manages(a, c)
    /\ Live(t)
    /\ sessions[t].role # "none"
    /\ \A m \in memberships :
         m.session = t /\ Active(m) /\ r \in {"planner", "reviewer"} =>
            \/ r = "planner" /\ m.channel = c
            \/ ~HasActiveRoleExcept(m.channel, r, t)
    /\ sessions' = [sessions EXCEPT ![t].role = r]
    /\ UNCHANGED <<channels, memberships>>

\* markSessionEnded that leaves the membership rows alone.
MutantMarkSessionEnded(s) ==
    /\ Live(s)
    /\ sessions' = [sessions EXCEPT ![s].state = "ended"]
    /\ UNCHANGED memberships

\* leaveMembership that deletes the row.
MutantLeaveMembership(c, s) ==
    /\ IsActiveMember(c, s)
    /\ memberships' = memberships \ RowsOf(c, s)

-----------------------------------------------------------------------------
(* Commands.                                                               *)

\* registerSession without a channel: an unknown id becomes a live session.
RegisterSession(s, r) ==
    /\ sessions[s].state = "absent"
    /\ sessions' = [sessions EXCEPT ![s] =
                      [state |-> "live", role |-> r,
                       externalOwner |-> NoSession]]
    /\ UNCHANGED <<channels, memberships>>

\* registerChannel: a live operator creates a channel it owns.
RegisterChannel(a, c) ==
    /\ LiveAs(a, "operator")
    /\ channels[c].state = "absent"
    /\ channels' = [channels EXCEPT ![c] = [state |-> "active", owner |-> a]]
    /\ UNCHANGED <<sessions, memberships>>

\* join: planners add workers, the owning operator adds everyone else, and a
\* second planner or reviewer is refused.
Join(a, c, t) ==
    /\ Live(a) /\ Live(t)
    /\ IF sessions[t].role = "worker"
       THEN sessions[a].role = "planner" /\ IsActiveMember(c, a)
       ELSE sessions[a].role = "operator" /\ channels[c].owner = a
    /\ sessions[t].role \in {"planner", "reviewer"} =>
         ~HasActiveRole(c, sessions[t].role)
    /\ MayJoinAgain(c, t)
    /\ InsertMembership(c, t, sessions[t].role)
    /\ UNCHANGED <<sessions, channels>>

\* leaveMembership: the latest active row of the session gets its left_at.
LeaveMembership(c, s) ==
    \E last \in RowsOf(c, s) :
        /\ Active(last)
        /\ \A m \in RowsOf(c, s) : Active(m) => m.joinedAt <= last.joinedAt
        /\ memberships' = (memberships \ {last})
                            \cup {[last EXCEPT !.left = TRUE]}

\* leave: oneself, or anyone when the actor is an operator.
Leave(a, c, s) ==
    /\ Acts(a)
    /\ a = s \/ sessions[a].role = "operator"
    /\ LeaveMembership(c, s)
    /\ UNCHANGED <<sessions, channels>>

\* markSessionEnded: the session and its active memberships end together.
MarkSessionEnded(s) ==
    /\ Live(s)
    /\ sessions' = [sessions EXCEPT ![s].state = "ended"]
    /\ memberships' = EndRows({m \in memberships : m.session = s})

\* Who may end whom (endSession).
MayEnd(a, t) ==
    \/ a = t
    \/ /\ sessions[a].role = "operator"
       /\ \/ sessions[t].externalOwner = a
          \/ \A c \in Channel : ~IsActiveMember(c, t)
          \/ \E c \in Channel :
               /\ IsActiveMember(c, t)
               /\ channels[c].owner = a \/ IsActiveMemberAs(c, a, "operator")
    \/ /\ sessions[a].role = "planner"
       /\ sessions[t].role = "worker"
       /\ \E c \in Channel : /\ IsActiveMemberAs(c, a, "planner")
                             /\ IsActiveMemberAs(c, t, "worker")

EndSession(a, t) ==
    /\ Acts(a)
    /\ MayEnd(a, t)
    /\ MarkSessionEnded(t)
    /\ UNCHANGED channels

\* registerSession with the operator's own credential: an ended operator
\* comes back, and so do its operator memberships of active channels that it
\* did not leave, whatever ended them.
ReactivateOperatorSession(s) ==
    /\ sessions[s].state # "absent"
    /\ sessions[s].role = "operator"
    /\ sessions' = [sessions EXCEPT ![s].state = "live",
                                    ![s].externalOwner = NoSession]
    /\ memberships' =
         {IF /\ m.session = s /\ m.role = "operator" /\ ~m.left
             /\ channels[m.channel].state = "active"
          THEN [m EXCEPT !.ended = FALSE] ELSE m : m \in memberships}
    /\ UNCHANGED channels

CloseChannel(a, c) ==
    /\ Manages(a, c)
    /\ channels[c].state = "active"
    /\ channels' = [channels EXCEPT ![c].state = "closed"]
    /\ memberships' = EndRows({m \in memberships : m.channel = c})
    /\ UNCHANGED sessions

\* resumeChannel of a closed channel: the channel opens, its members stay out.
ReopenChannel(c) ==
    /\ channels[c].state = "closed"
    /\ channels' = [channels EXCEPT ![c].state = "active"]
    /\ UNCHANGED <<sessions, memberships>>

\* The other active planners of c, which a new planner of c replaces.
ReplacedPlanners(c, t, r) ==
    {s \in Session \ {t} : r = "planner" /\ IsActiveMemberAs(c, s, "planner")}

\* updateSessionRole: refused when another planner or reviewer is active in a
\* channel of the target, except that a planner of c itself hands over.
UpdateSessionRole(a, c, t, r) ==
    /\ Manages(a, c)
    /\ Live(t)
    /\ sessions[t].role # "none"
    /\ \A m \in memberships :
         m.session = t /\ Active(m) /\ r \in {"planner", "reviewer"} =>
            \/ r = "planner" /\ m.channel = c
            \/ ~HasActiveRoleExcept(m.channel, r, t)
    /\ LET replaced == ReplacedPlanners(c, t, r)
           Renamed(s, old) == IF s = t THEN r
                              ELSE IF s \in replaced THEN "worker" ELSE old
       IN /\ sessions' = [s \in Session |->
                [sessions[s] EXCEPT !.role = Renamed(s, sessions[s].role)]]
          /\ memberships' =
               {IF Active(m) THEN [m EXCEPT !.role = Renamed(m.session, m.role)]
                ELSE m : m \in memberships}
    /\ UNCHANGED channels

\* RoomsRepository.registerSession: creates the session if it is unknown,
\* binds the external owner once, and joins it with the requested role.  No
\* planner or reviewer count is made, and the role of an existing session is
\* not consulted.
StoreRegisterSession(c, s, r, o) ==
    /\ sessions[s].state # "ended"
    /\ \/ sessions[s].state = "absent"
       \/ NoSession \in {o, sessions[s].externalOwner}
       \/ sessions[s].externalOwner = o
    /\ sessions' = [sessions EXCEPT ![s] =
         IF @.state = "absent"
         THEN [state |-> "live", role |-> r, externalOwner |-> o]
         ELSE IF @.externalOwner = NoSession
              THEN [@ EXCEPT !.externalOwner = o] ELSE @]
    /\ MayJoinAgain(c, s)
    /\ InsertMembership(c, s, r)
    /\ UNCHANGED channels

\* registerSession with a channel: carries no credential and no owner.
RegisterSessionInChannel(c, s, r) == StoreRegisterSession(c, s, r, NoSession)

\* registerChannelSession: the channel's operator registers an agent session,
\* possibly naming its external owner.
RegisterChannelSession(a, c, s, r, o) ==
    /\ sessions[a].state # "absent"
    /\ sessions[a].role = "operator"
    /\ \/ channels[c].owner \in {NoSession, a}
       \/ IsActiveMemberAs(c, a, "operator")
    /\ StoreRegisterSession(c, s, r, o)

-----------------------------------------------------------------------------

\* The commands that check roles: RoomsApplication, reopening a channel, and
\* an operator's recovery of its own session.
CommandNext ==
    \/ \E s \in Session, r \in RoleInUse : RegisterSession(s, r)
    \/ \E a \in Session, c \in Channel : RegisterChannel(a, c)
    \/ \E a, t \in Session, c \in Channel : Join(a, c, t)
    \/ \E a, t \in Session, c \in Channel : Leave(a, c, t)
    \/ \E a, t \in Session : EndSession(a, t)
    \/ \E s \in Session : ReactivateOperatorSession(s)
    \/ \E a \in Session, c \in Channel : CloseChannel(a, c)
    \/ \E c \in Channel : ReopenChannel(c)
    \/ \E a, t \in Session, c \in Channel, r \in AssignableRole \cap RoleInUse :
         UpdateSessionRole(a, c, t, r)

\* The store's own registration, reached from three entry points.
RegisterNext ==
    \/ \E c \in Channel, s \in Session, r \in RoleInUse \ {"none"} :
         RegisterSessionInChannel(c, s, r)
    \/ \E c \in Channel, a, s, o \in Session, r \in RoleInUse \ {"none"} :
         RegisterChannelSession(a, c, s, r, o)

Next == CommandNext \/ RegisterNext

CommandSpec == Init /\ [][CommandNext]_vars
Spec == Init /\ [][Next]_vars

-----------------------------------------------------------------------------
(* Properties.                                                             *)

\* An active membership row always belongs to a live session and an active
\* channel: ending a session, closing and reopening a channel and recovering
\* an operator keep the three tables consistent.
ActiveRowsAreLive ==
    \A m \in memberships : Active(m) =>
        /\ Live(m.session)
        /\ channels[m.channel].state = "active"

\* A channel has at most one active planner and one active reviewer, whatever
\* sequence of joins, handoffs, closures and recoveries led there.
OneLeaderPerChannel ==
    \A m, n \in memberships :
        /\ Active(m) /\ Active(n)
        /\ m.channel = n.channel
        /\ m.role = n.role
        /\ m.role \in {"planner", "reviewer"}
        => m.session = n.session

\* An active membership row carries the role of its session, although roles
\* are stored twice and changed by handoffs that reach other channels.
RolesAgree ==
    \A m \in memberships : Active(m) => m.role = sessions[m.session].role

\* Membership history is kept: no row disappears, a left row never changes
\* back, and a row ended in another role than operator never revives.
HistoryKept ==
    [][\A m \in memberships : \E n \in memberships' :
         /\ n.channel = m.channel /\ n.session = m.session
         /\ n.joinedAt = m.joinedAt
         /\ m.left => n.left
         /\ m.ended /\ m.role # "operator" => n.ended]_vars
=============================================================================
