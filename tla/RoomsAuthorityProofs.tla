------------------------ MODULE RoomsAuthorityProofs ------------------------
(***************************************************************************)
(* Proofs about the directory, for every set of sessions and channels.     *)
(***************************************************************************)
EXTENDS RoomsAuthority, FiniteSetTheorems, TLAPS

USE NoSessionAssumption, MaxRowsAssumption, RoleInUseAssumption

\* The membership history stays finite, which the numbering of joins needs.
TypeInv == TypeOK /\ IsFiniteSet(memberships)

\* Inserting a row keeps the table well typed: the new row's number is within
\* the bound that MayJoinAgain tested.
LEMMA InsertKeepsType ==
    ASSUME TypeInv, NEW c \in Channel, NEW s \in Session, NEW r \in Role,
           MayJoinAgain(c, s), InsertMembership(c, s, r)
    PROVE  memberships' \in SUBSET MembershipRow /\ IsFiniteSet(memberships')
<1>1. CASE IsActiveMember(c, s)
  BY <1>1 DEF InsertMembership, TypeInv, TypeOK
<1>2. CASE ~IsActiveMember(c, s)
  <2>1. Cardinality(memberships) < MaxRows
    BY <1>2 DEF MayJoinAgain
  <2>2. /\ Cardinality(RowsOf(c, s)) \in Nat
        /\ Cardinality(memberships) \in Nat
        /\ Cardinality(RowsOf(c, s)) <= Cardinality(memberships)
    <3>1. RowsOf(c, s) \subseteq memberships
      BY DEF RowsOf
    <3>2. IsFiniteSet(memberships)
      BY DEF TypeInv
    <3> QED BY <3>1, <3>2, FS_Subset, FS_CardinalityType
  <2>3. Cardinality(RowsOf(c, s)) + 1 \in 1 .. MaxRows
    BY <2>1, <2>2
  <2> DEFINE row == [channel |-> c, session |-> s,
                     joinedAt |-> Cardinality(RowsOf(c, s)) + 1,
                     left |-> FALSE, ended |-> FALSE, role |-> r]
  <2>4. row \in MembershipRow
    BY <2>3 DEF MembershipRow
  <2>5. memberships' = memberships \cup {row}
    BY <1>2 DEF InsertMembership
  <2>6. IsFiniteSet(memberships \cup {row})
    BY FS_AddElement DEF TypeInv
  <2> QED BY <2>4, <2>5, <2>6 DEF TypeInv, TypeOK
<1> QED BY <1>1, <1>2

\* An UPDATE of table memberships keeps it finite: the new table is the image
\* of the old one under a function.
LEMMA ImageFinite ==
    ASSUME NEW S, IsFiniteSet(S), NEW f, f = [x \in S |-> f[x]]
    PROVE  IsFiniteSet({f[x] : x \in S})
<1> DEFINE T == {f[x] : x \in S}
<1>1. f \in Surjection(S, T)
  BY DEF Surjection
<1> QED BY <1>1, FS_Surjection

\* Setting or clearing session_ended_at keeps a row well typed.
LEMMA EndedRowType ==
    ASSUME NEW m \in MembershipRow, NEW b \in BOOLEAN
    PROVE  [m EXCEPT !.ended = b] \in MembershipRow
  BY DEF MembershipRow

\* The directory starts empty and well typed.
LEMMA InitType == Init => TypeInv
  BY FS_EmptySet DEF Init, TypeInv, TypeOK, SessionRow, ChannelRow, Role

\* Every command and every store registration keeps the tables well typed.
LEMMA NextType ==
    ASSUME TypeInv, [Next]_vars
    PROVE  TypeInv'
<1> USE DEF TypeInv, TypeOK
<1>1. ASSUME NEW s \in Session, NEW r \in RoleInUse, RegisterSession(s, r)
      PROVE  TypeInv'
  BY <1>1 DEF RegisterSession, SessionRow
<1>2. ASSUME NEW a \in Session, NEW c \in Channel, RegisterChannel(a, c)
      PROVE  TypeInv'
  BY <1>2 DEF RegisterChannel, ChannelRow
<1>3. ASSUME NEW a \in Session, NEW t \in Session, NEW c \in Channel,
             Join(a, c, t)
      PROVE  TypeInv'
  <2>1. sessions[t].role \in Role
    BY DEF SessionRow
  <2>2. /\ MayJoinAgain(c, t) /\ InsertMembership(c, t, sessions[t].role)
        /\ UNCHANGED <<sessions, channels>>
    BY <1>3 DEF Join
  <2> QED BY <2>1, <2>2, InsertKeepsType
<1>4. ASSUME NEW a \in Session, NEW t \in Session, NEW c \in Channel,
             Leave(a, c, t)
      PROVE  TypeInv'
  <2>1. PICK last \in RowsOf(c, t) :
           memberships' = (memberships \ {last}) \cup {[last EXCEPT !.left = TRUE]}
    BY <1>4 DEF Leave, LeaveMembership
  <2>2. last \in MembershipRow
    BY DEF RowsOf
  <2>3. [last EXCEPT !.left = TRUE] \in MembershipRow
    BY <2>2 DEF MembershipRow
  <2>4. IsFiniteSet(memberships')
    BY <2>1, FS_RemoveElement, FS_AddElement
  <2> QED BY <2>1, <2>3, <2>4, <1>4 DEF Leave
<1>5. ASSUME NEW a \in Session, NEW t \in Session, EndSession(a, t)
      PROVE  TypeInv'
  <2> DEFINE f == [m \in memberships |->
                     IF m.session = t /\ Active(m)
                     THEN [m EXCEPT !.ended = TRUE] ELSE m]
  <2>1. memberships' = {f[m] : m \in memberships}
    BY <1>5 DEF EndSession, MarkSessionEnded, EndRows
  <2>2. \A m \in memberships : f[m] \in MembershipRow
    BY EndedRowType
  <2>3. IsFiniteSet(memberships')
    <3> HIDE DEF f
    <3>1. f = [m \in memberships |-> f[m]]
      BY DEF f
    <3> QED BY <2>1, <3>1, ImageFinite
  <2>4. sessions' \in [Session -> SessionRow] /\ channels' = channels
    BY <1>5 DEF EndSession, MarkSessionEnded, SessionRow
  <2> QED BY <2>1, <2>2, <2>3, <2>4
<1>6. ASSUME NEW s \in Session, ReactivateOperatorSession(s)
      PROVE  TypeInv'
  <2> DEFINE f == [m \in memberships |->
                     IF /\ m.session = s /\ m.role = "operator" /\ ~m.left
                        /\ channels[m.channel].state = "active"
                     THEN [m EXCEPT !.ended = FALSE] ELSE m]
  <2>1. memberships' = {f[m] : m \in memberships}
    BY <1>6 DEF ReactivateOperatorSession
  <2>2. \A m \in memberships : f[m] \in MembershipRow
    BY EndedRowType
  <2>3. IsFiniteSet(memberships')
    <3> HIDE DEF f
    <3>1. f = [m \in memberships |-> f[m]]
      BY DEF f
    <3> QED BY <2>1, <3>1, ImageFinite
  <2>4. sessions' \in [Session -> SessionRow] /\ channels' = channels
    BY <1>6, ZenonT(40) DEF ReactivateOperatorSession, SessionRow
  <2> QED BY <2>1, <2>2, <2>3, <2>4
<1>7. ASSUME NEW a \in Session, NEW c \in Channel, CloseChannel(a, c)
      PROVE  TypeInv'
  <2> DEFINE f == [m \in memberships |->
                     IF m.channel = c /\ Active(m)
                     THEN [m EXCEPT !.ended = TRUE] ELSE m]
  <2>1. memberships' = {f[m] : m \in memberships}
    BY <1>7 DEF CloseChannel, EndRows
  <2>2. \A m \in memberships : f[m] \in MembershipRow
    BY EndedRowType
  <2>3. IsFiniteSet(memberships')
    <3> HIDE DEF f
    <3>1. f = [m \in memberships |-> f[m]]
      BY DEF f
    <3> QED BY <2>1, <3>1, ImageFinite
  <2>4. channels' \in [Channel -> ChannelRow] /\ sessions' = sessions
    BY <1>7 DEF CloseChannel, ChannelRow
  <2> QED BY <2>1, <2>2, <2>3, <2>4
<1>8. ASSUME NEW c \in Channel, ReopenChannel(c)
      PROVE  TypeInv'
  BY <1>8 DEF ReopenChannel, ChannelRow
<1>9. ASSUME NEW a \in Session, NEW t \in Session, NEW c \in Channel,
             NEW r \in AssignableRole, UpdateSessionRole(a, c, t, r)
      PROVE  TypeInv'
  <2> DEFINE Renamed(s, old) == IF s = t THEN r
                 ELSE IF s \in ReplacedPlanners(c, t, r) THEN "worker" ELSE old
             f == [m \in memberships |->
                     IF Active(m)
                     THEN [m EXCEPT !.role = Renamed(m.session, m.role)] ELSE m]
  <2>1. memberships' = {f[m] : m \in memberships}
    BY <1>9 DEF UpdateSessionRole
  <2>2. \A m \in memberships : f[m] \in MembershipRow
    BY DEF MembershipRow, Role, AssignableRole
  <2>3. IsFiniteSet(memberships')
    <3> HIDE DEF f
    <3>1. f = [m \in memberships |-> f[m]]
      BY DEF f
    <3> QED BY <2>1, <3>1, ImageFinite
  <2>4. sessions' \in [Session -> SessionRow] /\ channels' = channels
    BY <1>9, ZenonT(60) DEF UpdateSessionRole, SessionRow, Role, AssignableRole
  <2> QED BY <2>1, <2>2, <2>3, <2>4
<1>10. ASSUME NEW c \in Channel, NEW s \in Session, NEW r \in RoleInUse,
              NEW o \in Session \cup {NoSession},
              StoreRegisterSession(c, s, r, o)
       PROVE  TypeInv'
  <2>1. memberships' \in SUBSET MembershipRow /\ IsFiniteSet(memberships')
    BY <1>10, InsertKeepsType DEF StoreRegisterSession
  <2>2. sessions' \in [Session -> SessionRow] /\ channels' = channels
    BY <1>10 DEF StoreRegisterSession, SessionRow
  <2> QED BY <2>1, <2>2
<1>11. CASE UNCHANGED vars
  BY <1>11 DEF vars
<1> QED
  BY <1>1, <1>2, <1>3, <1>4, <1>5, <1>6, <1>7, <1>8, <1>9, <1>10, <1>11
  DEF Next, CommandNext, RegisterNext, RegisterSessionInChannel,
      RegisterChannelSession

\* The tables of the directory stay well typed under every command and under
\* the store's unchecked registration.
THEOREM TypeCorrect == Spec => []TypeOK
<1>1. TypeInv => TypeOK
  BY DEF TypeInv
<1> QED BY <1>1, InitType, NextType, PTL DEF Spec

-----------------------------------------------------------------------------
\* Every command and every registration keeps the three tables consistent.
LEMMA NextLive ==
    ASSUME TypeInv, ActiveRowsAreLive, [Next]_vars
    PROVE  ActiveRowsAreLive'
<1> USE DEF TypeInv, TypeOK, ActiveRowsAreLive, Live
<1>a. \A m \in memberships : m.session \in Session /\ m.channel \in Channel
  BY DEF MembershipRow
<1>1. ASSUME NEW s \in Session, NEW r \in RoleInUse, RegisterSession(s, r)
      PROVE  ActiveRowsAreLive'
  BY <1>1, <1>a DEF RegisterSession
<1>2. ASSUME NEW a \in Session, NEW c \in Channel, RegisterChannel(a, c)
      PROVE  ActiveRowsAreLive'
  BY <1>2, <1>a DEF RegisterChannel
<1>3. ASSUME NEW c \in Channel, NEW s \in Session, NEW r \in Role,
             InsertMembership(c, s, r), channels' = channels,
             sessions'[s].state = "live",
             \A x \in Session \ {s} : sessions'[x].state = sessions[x].state
      PROVE  ActiveRowsAreLive'
  BY <1>3, <1>a DEF InsertMembership
<1>4. ASSUME NEW a \in Session, NEW t \in Session, NEW c \in Channel,
             Join(a, c, t)
      PROVE  ActiveRowsAreLive'
  <2>1. sessions[t].role \in Role
    BY DEF SessionRow
  <2> QED BY <1>3, <1>4, <2>1 DEF Join
<1>5. ASSUME NEW a \in Session, NEW t \in Session, NEW c \in Channel,
             Leave(a, c, t)
      PROVE  ActiveRowsAreLive'
  <2>1. PICK last \in RowsOf(c, t) :
           memberships' = (memberships \ {last}) \cup {[last EXCEPT !.left = TRUE]}
    BY <1>5 DEF Leave, LeaveMembership
  <2>2. last \in MembershipRow
    BY DEF RowsOf
  <2>3. ~Active([last EXCEPT !.left = TRUE])
    BY <2>2 DEF Active, MembershipRow
  <2> QED BY <2>1, <2>3, <1>5 DEF Leave
<1>6. ASSUME NEW a \in Session, NEW t \in Session, EndSession(a, t)
      PROVE  ActiveRowsAreLive'
  <2>1. ASSUME NEW n \in memberships', Active(n)
        PROVE  n \in memberships /\ n.session # t
    <3>1. PICK m \in memberships :
            n = IF m.session = t /\ Active(m)
                THEN [m EXCEPT !.ended = TRUE] ELSE m
      BY <1>6 DEF EndSession, MarkSessionEnded, EndRows
    <3>2. ~Active([m EXCEPT !.ended = TRUE])
      BY DEF Active, MembershipRow
    <3> QED BY <2>1, <3>1, <3>2
  <2>2. /\ sessions' = [sessions EXCEPT ![t].state = "ended"]
        /\ channels' = channels
    BY <1>6 DEF EndSession, MarkSessionEnded
  <2> QED BY <2>1, <2>2, <1>a
<1>7. ASSUME NEW s \in Session, ReactivateOperatorSession(s)
      PROVE  ActiveRowsAreLive'
  <2>1. ASSUME NEW n \in memberships', Active(n)
        PROVE  \/ n \in memberships
               \/ n.session = s /\ channels[n.channel].state = "active"
    <3>1. PICK m \in memberships :
            n = IF /\ m.session = s /\ m.role = "operator" /\ ~m.left
                   /\ channels[m.channel].state = "active"
                THEN [m EXCEPT !.ended = FALSE] ELSE m
      BY <1>7 DEF ReactivateOperatorSession
    <3>2. /\ [m EXCEPT !.ended = FALSE].session = m.session
          /\ [m EXCEPT !.ended = FALSE].channel = m.channel
      BY DEF MembershipRow
    <3> QED BY <3>1, <3>2
  <2>2. /\ sessions' = [sessions EXCEPT ![s].state = "live",
                                        ![s].externalOwner = NoSession]
        /\ channels' = channels
    BY <1>7 DEF ReactivateOperatorSession
  <2>3. /\ sessions'[s].state = "live"
        /\ \A x \in Session \ {s} : sessions'[x] = sessions[x]
    BY <2>2 DEF SessionRow
  <2> QED BY <2>1, <2>2, <2>3, <1>a
<1>8. ASSUME NEW a \in Session, NEW c \in Channel, CloseChannel(a, c)
      PROVE  ActiveRowsAreLive'
  <2>1. ASSUME NEW n \in memberships', Active(n)
        PROVE  n \in memberships /\ n.channel # c
    <3>1. PICK m \in memberships :
            n = IF m.channel = c /\ Active(m)
                THEN [m EXCEPT !.ended = TRUE] ELSE m
      BY <1>8 DEF CloseChannel, EndRows
    <3>2. ~Active([m EXCEPT !.ended = TRUE])
      BY DEF Active, MembershipRow
    <3> QED BY <2>1, <3>1, <3>2
  <2>2. /\ channels' = [channels EXCEPT ![c].state = "closed"]
        /\ sessions' = sessions
    BY <1>8 DEF CloseChannel
  <2> QED BY <2>1, <2>2, <1>a
<1>9. ASSUME NEW c \in Channel, ReopenChannel(c)
      PROVE  ActiveRowsAreLive'
  BY <1>9, <1>a DEF ReopenChannel, ChannelRow
<1>10. ASSUME NEW a \in Session, NEW t \in Session, NEW c \in Channel,
              NEW r \in AssignableRole, UpdateSessionRole(a, c, t, r)
       PROVE  ActiveRowsAreLive'
  <2>1. ASSUME NEW n \in memberships', Active(n)
        PROVE  \E m \in memberships : /\ Active(m)
                                      /\ m.session = n.session
                                      /\ m.channel = n.channel
    <3>1. PICK m \in memberships, x \in Role :
            n = IF Active(m) THEN [m EXCEPT !.role = x] ELSE m
      BY <1>10 DEF UpdateSessionRole, MembershipRow, Role, AssignableRole
    <3> QED BY <2>1, <3>1 DEF MembershipRow
  <2>2. /\ channels' = channels
        /\ \A x \in Session : sessions'[x].state = sessions[x].state
    BY <1>10 DEF UpdateSessionRole, SessionRow
  <2> QED BY <2>1, <2>2, <1>a
<1>11. ASSUME NEW c \in Channel, NEW s \in Session, NEW r \in RoleInUse,
              NEW o \in Session \cup {NoSession},
              StoreRegisterSession(c, s, r, o)
       PROVE  ActiveRowsAreLive'
  <2>1. /\ sessions'[s].state = "live"
        /\ \A x \in Session \ {s} : sessions'[x].state = sessions[x].state
    BY <1>11 DEF StoreRegisterSession, SessionRow
  <2> QED BY <1>3, <1>11, <2>1 DEF StoreRegisterSession
<1>12. CASE UNCHANGED vars
  BY <1>12 DEF vars
<1> QED
  BY <1>1, <1>2, <1>4, <1>5, <1>6, <1>7, <1>8, <1>9, <1>10, <1>11, <1>12
  DEF Next, CommandNext, RegisterNext, RegisterSessionInChannel,
      RegisterChannelSession

\* Whatever commands run, an active membership belongs to a live session and
\* an active channel.
THEOREM MembershipsConsistent == Spec => []ActiveRowsAreLive
<1>1. Init => ActiveRowsAreLive
  BY DEF Init, ActiveRowsAreLive
<1> QED BY <1>1, InitType, NextType, NextLive, PTL DEF Spec

-----------------------------------------------------------------------------
(* The checked commands alone keep one leader of each kind per channel.    *)

CommandInv ==
    TypeInv /\ ActiveRowsAreLive /\ OneLeaderPerChannel /\ RolesAgree

\* Joining adds a planner or a reviewer only where none is active, and the
\* new row takes the role of its session.
LEMMA JoinLeader ==
    ASSUME CommandInv, NEW a \in Session, NEW t \in Session, NEW c \in Channel,
           Join(a, c, t)
    PROVE  (OneLeaderPerChannel /\ RolesAgree)'
<1> USE DEF CommandInv, TypeInv, TypeOK
<1>1. CASE IsActiveMember(c, t)
  BY <1>1 DEF Join, InsertMembership, OneLeaderPerChannel, RolesAgree
<1>2. CASE ~IsActiveMember(c, t)
  <2> DEFINE row == [channel |-> c, session |-> t,
                     joinedAt |-> Cardinality(RowsOf(c, t)) + 1,
                     left |-> FALSE, ended |-> FALSE,
                     role |-> sessions[t].role]
  <2>1. memberships' = memberships \cup {row} /\ sessions' = sessions
    BY <1>2 DEF Join, InsertMembership
  <2>2. row.role \in {"planner", "reviewer"} => ~HasActiveRole(c, row.role)
    BY DEF Join
  <2>3. RolesAgree'
    BY <2>1 DEF RolesAgree
  <2>4. OneLeaderPerChannel'
    BY <2>1, <2>2 DEF OneLeaderPerChannel, HasActiveRole
  <2> QED BY <2>3, <2>4
<1> QED BY <1>1, <1>2

\* A role change keeps one leader per channel: other planners of the named
\* channel step down everywhere, and in the other channels none was active.
LEMMA RoleChangeLeader ==
    ASSUME CommandInv, NEW a \in Session, NEW t \in Session, NEW c \in Channel,
           NEW r \in AssignableRole, UpdateSessionRole(a, c, t, r)
    PROVE  (OneLeaderPerChannel /\ RolesAgree)'
<1> USE DEF CommandInv, TypeInv, TypeOK
<1> DEFINE Renamed(s, old) == IF s = t THEN r
             ELSE IF s \in ReplacedPlanners(c, t, r) THEN "worker" ELSE old
<1>1. \A n \in memberships' : \E m \in memberships :
         n = IF Active(m) THEN [m EXCEPT !.role = Renamed(m.session, m.role)]
             ELSE m
  BY DEF UpdateSessionRole
<1>2. ASSUME NEW n \in memberships', Active(n)
      PROVE  \E m \in memberships :
               /\ Active(m) /\ m.session = n.session /\ m.channel = n.channel
               /\ m.session \in Session
               /\ n.role = Renamed(m.session, m.role)
  BY <1>1, <1>2 DEF Active, MembershipRow
<1>3. RolesAgree'
  <2>1. \A s \in Session : sessions'[s].role = Renamed(s, sessions[s].role)
    BY DEF UpdateSessionRole, SessionRow
  <2> HIDE DEF Renamed
  <2> QED BY <1>2, <2>1 DEF RolesAgree
<1>4. OneLeaderPerChannel'
  <2> SUFFICES ASSUME NEW p \in memberships', NEW q \in memberships',
                      Active(p), Active(q), p.channel = q.channel,
                      p.role = q.role, p.role \in {"planner", "reviewer"}
               PROVE  p.session = q.session
    BY DEF OneLeaderPerChannel
  <2>1. PICK m \in memberships :
          /\ Active(m) /\ m.session = p.session /\ m.channel = p.channel
          /\ m.session \in Session /\ p.role = Renamed(m.session, m.role)
    BY <1>2
  <2>2. PICK k \in memberships :
          /\ Active(k) /\ k.session = q.session /\ k.channel = q.channel
          /\ k.session \in Session /\ q.role = Renamed(k.session, k.role)
    BY <1>2
  <2>3. \A x \in memberships :
          x.session = t /\ Active(x) /\ r \in {"planner", "reviewer"} =>
            \/ r = "planner" /\ x.channel = c
            \/ ~HasActiveRoleExcept(x.channel, r, t)
    BY DEF UpdateSessionRole
  <2>4. CASE m.session # t /\ k.session # t
    BY <2>1, <2>2, <2>4 DEF OneLeaderPerChannel
  <2>5. CASE m.session = t /\ k.session # t
    <3>1. k.role = r /\ k.session \notin ReplacedPlanners(c, t, r)
      BY <2>1, <2>2, <2>5
    <3>2. r = "planner" => k.channel # c
      BY <3>1, <2>2, <2>5 DEF ReplacedPlanners, IsActiveMemberAs
    <3> QED BY <3>1, <3>2, <2>1, <2>2, <2>3, <2>5 DEF HasActiveRoleExcept
  <2>6. CASE m.session # t /\ k.session = t
    <3>1. m.role = r /\ m.session \notin ReplacedPlanners(c, t, r)
      BY <2>1, <2>2, <2>6
    <3>2. r = "planner" => m.channel # c
      BY <3>1, <2>1, <2>6 DEF ReplacedPlanners, IsActiveMemberAs
    <3> QED BY <3>1, <3>2, <2>1, <2>2, <2>3, <2>6 DEF HasActiveRoleExcept
  <2>7. CASE m.session = t /\ k.session = t
    BY <2>1, <2>2, <2>7
  <2> QED BY <2>4, <2>5, <2>6, <2>7
<1> QED BY <1>3, <1>4

\* Every checked command preserves the leader and role invariants.
LEMMA CommandLeader ==
    ASSUME CommandInv, [CommandNext]_vars
    PROVE  (OneLeaderPerChannel /\ RolesAgree)'
<1> USE DEF CommandInv, TypeInv, TypeOK
<1>a. \A m \in memberships : m.session \in Session /\ m.channel \in Channel
  BY DEF MembershipRow
<1>b. ASSUME \A n \in memberships' : Active(n) => n \in memberships,
             \A s \in Session : sessions'[s].role = sessions[s].role
      PROVE  (OneLeaderPerChannel /\ RolesAgree)'
  BY <1>a, <1>b DEF OneLeaderPerChannel, RolesAgree
<1>1. ASSUME NEW s \in Session, NEW r \in RoleInUse, RegisterSession(s, r)
      PROVE  (OneLeaderPerChannel /\ RolesAgree)'
  BY <1>1, <1>a DEF RegisterSession, OneLeaderPerChannel, RolesAgree,
                    ActiveRowsAreLive, Live
<1>2. ASSUME NEW a \in Session, NEW c \in Channel, RegisterChannel(a, c)
      PROVE  (OneLeaderPerChannel /\ RolesAgree)'
  BY <1>2, <1>b DEF RegisterChannel
<1>3. ASSUME NEW a \in Session, NEW t \in Session, NEW c \in Channel,
             Leave(a, c, t)
      PROVE  (OneLeaderPerChannel /\ RolesAgree)'
  <2>1. PICK last \in RowsOf(c, t) :
           memberships' = (memberships \ {last}) \cup {[last EXCEPT !.left = TRUE]}
    BY <1>3 DEF Leave, LeaveMembership
  <2>2. ~Active([last EXCEPT !.left = TRUE])
    BY DEF Active, MembershipRow, RowsOf
  <2> QED BY <2>1, <2>2, <1>3, <1>b DEF Leave
<1>4. ASSUME NEW a \in Session, NEW t \in Session, EndSession(a, t)
      PROVE  (OneLeaderPerChannel /\ RolesAgree)'
  <2>1. ASSUME NEW n \in memberships', Active(n)
        PROVE  n \in memberships
    <3>1. PICK m \in memberships :
            n = IF m.session = t /\ Active(m)
                THEN [m EXCEPT !.ended = TRUE] ELSE m
      BY <1>4 DEF EndSession, MarkSessionEnded, EndRows
    <3>2. ~Active([m EXCEPT !.ended = TRUE])
      BY DEF Active, MembershipRow
    <3> QED BY <2>1, <3>1, <3>2
  <2>2. \A s \in Session : sessions'[s].role = sessions[s].role
    BY <1>4 DEF EndSession, MarkSessionEnded, SessionRow
  <2> QED BY <2>1, <2>2, <1>b
<1>5. ASSUME NEW s \in Session, ReactivateOperatorSession(s)
      PROVE  (OneLeaderPerChannel /\ RolesAgree)'
  <2>1. ASSUME NEW n \in memberships', Active(n)
        PROVE  n \in memberships \/ (n.session = s /\ n.role = "operator")
    <3>1. PICK m \in memberships :
            n = IF /\ m.session = s /\ m.role = "operator" /\ ~m.left
                   /\ channels[m.channel].state = "active"
                THEN [m EXCEPT !.ended = FALSE] ELSE m
      BY <1>5 DEF ReactivateOperatorSession
    <3>2. /\ [m EXCEPT !.ended = FALSE].session = m.session
          /\ [m EXCEPT !.ended = FALSE].role = m.role
      BY DEF MembershipRow
    <3> QED BY <3>1, <3>2
  <2>2. /\ \A x \in Session : sessions'[x].role = sessions[x].role
        /\ sessions[s].role = "operator"
    BY <1>5 DEF ReactivateOperatorSession, SessionRow
  <2> QED BY <2>1, <2>2, <1>a DEF OneLeaderPerChannel, RolesAgree
<1>6. ASSUME NEW a \in Session, NEW c \in Channel, CloseChannel(a, c)
      PROVE  (OneLeaderPerChannel /\ RolesAgree)'
  <2>1. ASSUME NEW n \in memberships', Active(n)
        PROVE  n \in memberships
    <3>1. PICK m \in memberships :
            n = IF m.channel = c /\ Active(m)
                THEN [m EXCEPT !.ended = TRUE] ELSE m
      BY <1>6 DEF CloseChannel, EndRows
    <3>2. ~Active([m EXCEPT !.ended = TRUE])
      BY DEF Active, MembershipRow
    <3> QED BY <2>1, <3>1, <3>2
  <2> QED BY <2>1, <1>6, <1>b DEF CloseChannel
<1>7. ASSUME NEW c \in Channel, ReopenChannel(c)
      PROVE  (OneLeaderPerChannel /\ RolesAgree)'
  BY <1>7, <1>b DEF ReopenChannel
<1>8. CASE UNCHANGED vars
  BY <1>8, <1>b DEF vars
<1> QED
  BY <1>1, <1>2, <1>3, <1>4, <1>5, <1>6, <1>7, <1>8, JoinLeader,
     RoleChangeLeader
  DEF CommandNext

\* The checked commands never give a channel a second active planner or
\* reviewer, and the two copies of a role never drift apart.
THEOREM CommandsKeepOneLeader ==
    CommandSpec => [](OneLeaderPerChannel /\ RolesAgree)
<1>1. Init => OneLeaderPerChannel /\ RolesAgree /\ ActiveRowsAreLive
  BY DEF Init, OneLeaderPerChannel, RolesAgree, ActiveRowsAreLive
<1>2. [CommandNext]_vars => [Next]_vars
  BY DEF Next
<1>3. TypeInv /\ ActiveRowsAreLive /\ [CommandNext]_vars =>
         TypeInv' /\ ActiveRowsAreLive'
  BY <1>2, NextType, NextLive
<1> QED BY <1>1, <1>3, InitType, CommandLeader, PTL DEF CommandSpec, CommandInv

\* The two copies of a role never drift apart under the checked commands.
THEOREM RolesNeverDrift == CommandSpec => []RolesAgree
BY CommandsKeepOneLeader, PTL

-----------------------------------------------------------------------------
(* History is append-only, whatever runs, the store's own registration     *)
(* included.                                                               *)

\* What a step may make of a row m.
Keeps(m, n) ==
    /\ n.channel = m.channel /\ n.session = m.session
    /\ n.joinedAt = m.joinedAt
    /\ m.left => n.left
    /\ m.ended /\ m.role # "operator" => n.ended

\* A row keeps its history when it stays, is left, is ended, changes its role
\* while active, or is revived as an operator's.
LEMMA RowUpdateKeeps ==
    ASSUME NEW m \in MembershipRow
    PROVE  /\ Keeps(m, m)
           /\ Keeps(m, [m EXCEPT !.left = TRUE])
           /\ Keeps(m, [m EXCEPT !.ended = TRUE])
           /\ m.role = "operator" => Keeps(m, [m EXCEPT !.ended = FALSE])
           /\ \A r : Keeps(m, [m EXCEPT !.role = r])
BY DEF Keeps, MembershipRow

\* Every step keeps every row of the history.
LEMMA NextHistory ==
    ASSUME TypeInv, [Next]_vars, NEW m \in memberships
    PROVE  \E n \in memberships' : Keeps(m, n)
<1>a. m \in MembershipRow
  BY DEF TypeInv, TypeOK
<1>b. m \in memberships' => \E n \in memberships' : Keeps(m, n)
  BY <1>a, RowUpdateKeeps
<1>1. ASSUME NEW c \in Channel, NEW s \in Session, NEW r, InsertMembership(c, s, r)
      PROVE  m \in memberships'
  BY <1>1 DEF InsertMembership
<1>2. ASSUME NEW a \in Session, NEW c \in Channel, NEW t \in Session, Leave(a, c, t)
      PROVE  \E n \in memberships' : Keeps(m, n)
  <2>1. PICK last \in RowsOf(c, t) :
          memberships' = (memberships \ {last}) \cup {[last EXCEPT !.left = TRUE]}
    BY <1>2 DEF Leave, LeaveMembership
  <2>2. CASE m = last
    BY <2>1, <2>2, <1>a, RowUpdateKeeps
  <2>3. CASE m # last
    BY <2>1, <2>3, <1>b
  <2> QED BY <2>2, <2>3
<1>3. ASSUME NEW rows, memberships' = EndRows(rows)
      PROVE  \E n \in memberships' : Keeps(m, n)
  <2>1. (IF m \in rows /\ Active(m) THEN [m EXCEPT !.ended = TRUE] ELSE m) \in memberships'
    BY <1>3 DEF EndRows
  <2> QED BY <2>1, <1>a, RowUpdateKeeps
<1>4. ASSUME NEW s \in Session, ReactivateOperatorSession(s)
      PROVE  \E n \in memberships' : Keeps(m, n)
  <2>1. (IF /\ m.session = s /\ m.role = "operator" /\ ~m.left
            /\ channels[m.channel].state = "active"
         THEN [m EXCEPT !.ended = FALSE] ELSE m) \in memberships'
    BY <1>4 DEF ReactivateOperatorSession
  <2> QED BY <2>1, <1>a, RowUpdateKeeps
<1>5. ASSUME NEW a \in Session, NEW t \in Session, NEW c \in Channel, NEW r,
             UpdateSessionRole(a, c, t, r)
      PROVE  \E n \in memberships' : Keeps(m, n)
  <2>1. \E x : (IF Active(m) THEN [m EXCEPT !.role = x] ELSE m) \in memberships'
    BY <1>5 DEF UpdateSessionRole
  <2> QED BY <2>1, <1>a, RowUpdateKeeps
<1>6. ASSUME NEW a \in Session, NEW t \in Session, EndSession(a, t)
      PROVE  \E n \in memberships' : Keeps(m, n)
  BY <1>3, <1>6 DEF EndSession, MarkSessionEnded
<1>7. ASSUME NEW a \in Session, NEW c \in Channel, CloseChannel(a, c)
      PROVE  \E n \in memberships' : Keeps(m, n)
  BY <1>3, <1>7 DEF CloseChannel
<1>8. ASSUME NEW a \in Session, NEW t \in Session, NEW c \in Channel, Join(a, c, t)
      PROVE  \E n \in memberships' : Keeps(m, n)
  BY <1>1, <1>8, <1>b DEF Join
<1>9. ASSUME NEW c \in Channel, NEW s \in Session, NEW r, NEW o,
             StoreRegisterSession(c, s, r, o)
      PROVE  \E n \in memberships' : Keeps(m, n)
  BY <1>1, <1>9, <1>b DEF StoreRegisterSession
<1>10. ASSUME memberships' = memberships
       PROVE  \E n \in memberships' : Keeps(m, n)
  BY <1>10, <1>b
<1>11. CASE CommandNext
  <2>1. ASSUME NEW s \in Session, NEW r \in RoleInUse, RegisterSession(s, r)
        PROVE  \E n \in memberships' : Keeps(m, n)
    BY <2>1, <1>10 DEF RegisterSession
  <2>2. ASSUME NEW a \in Session, NEW c \in Channel, RegisterChannel(a, c)
        PROVE  \E n \in memberships' : Keeps(m, n)
    BY <2>2, <1>10 DEF RegisterChannel
  <2>3. ASSUME NEW c \in Channel, ReopenChannel(c)
        PROVE  \E n \in memberships' : Keeps(m, n)
    BY <2>3, <1>10 DEF ReopenChannel
  <2> QED BY <1>11, <2>1, <2>2, <2>3, <1>2, <1>4, <1>5, <1>6, <1>7, <1>8
          DEF CommandNext
<1>12. CASE RegisterNext
  BY <1>9, <1>12 DEF RegisterNext, RegisterSessionInChannel, RegisterChannelSession
<1>13. CASE UNCHANGED vars
  BY <1>13, <1>10 DEF vars
<1> QED BY <1>11, <1>12, <1>13 DEF Next

\* No command removes a membership row, takes back that a member left, or
\* revives a row that ended in another role than operator.
THEOREM HistoryNeverLost == Spec => HistoryKept
<1>1. TypeInv /\ [Next]_vars =>
        [\A m \in memberships : \E n \in memberships' :
           /\ n.channel = m.channel /\ n.session = m.session
           /\ n.joinedAt = m.joinedAt
           /\ m.left => n.left
           /\ m.ended /\ m.role # "operator" => n.ended]_vars
  BY NextHistory DEF Keeps
<1> QED BY <1>1, InitType, NextType, PTL DEF Spec, HistoryKept

=============================================================================
