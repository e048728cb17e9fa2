--------------------------- MODULE PeerEnrollment ---------------------------
(* How two machines come to trust each other (federation/enrollment.ts,     *)
(* peer-trust.ts, ssh-connect.ts and identity/machine-identity.ts).         *)
(*                                                                          *)
(* Every command is a process of its own: it checks the artifact it is      *)
(* given, reads the trust record, writes it, writes its ledger entry and    *)
(* prints the next artifact.  Nothing locks those files, so commands of one *)
(* machine interleave between any two of these steps, and a process may     *)
(* die after each.  The artifacts are carried by operators: any of them may *)
(* be lost, late, or given to a command twice.  An artifact past its        *)
(* expiresAt is refused without effect, like one nobody carries.            *)
(*                                                                          *)
(* Keys and signatures: an authority id is the hash of the key, so a        *)
(* machine is its key, and an artifact that verifies is one its signer      *)
(* printed (sent).  The nonces and times of an artifact are fixed by its    *)
(* enrollment id, which is a random UUID.                                   *)
EXTENDS Naturals, FiniteSets

CONSTANTS
    Process,        \* slots for the processes that run at one time
    Id,             \* enrollment ids that may be generated
    Policy,         \* transport policies an operator may choose
    Initiators,     \* the machines whose operators make offers
    None

ASSUME InitiatorsAssumption == Initiators \subseteq {"a", "b"}

VARIABLES
    key,            \* key[m]: 0 before m has an identity, then the number of the
                    \* key pair in its identity directory
    temp,           \* temp[m]: processes with a .identity.tmp- directory
    ledger,         \* ledger[m][id]: the enrollment ledger of m
    trust,          \* trust[m]: the record that m keeps of its peer
    sent,           \* the artifacts printed so far
    proc,           \* proc[p]: what the process in slot p is doing
    connect         \* the one run of `federation peer connect`

enrollmentVars == <<key, temp, ledger, trust, sent, proc, connect>>

Machine == {"a", "b"}

OtherMachine(m) == IF m = "a" THEN "b" ELSE "a"

\* The bodies of the four artifacts: dp is None in an offer.
Artifacts == [kind : {"offer", "challenge", "accept", "confirm"}, id : Id,
              origin : Machine, op : Policy, dp : Policy \cup {None}]

\* EnrollmentLedgerEntry.
Entries == [role : {"initiator", "responder"},
            stage : {"offered", "challenged", "accepted", "confirmed"},
            op : Policy, dp : Policy \cup {None}]

\* PeerTrustRecord: the key is the peer's, the times are left out.
Records == [state : {"pending", "confirming", "active", "revoked"},
            policy : Policy]

ASSUME NoneAssumption ==
    None \notin Id /\ None \notin Policy /\ None \notin Entries /\ None \notin Records

Commands == {"challenge", "accept", "confirm", "finalize", "prepare", "revoke"}

\* A process: its command, machine, artifact, the policy it pins, the ledger
\* entry it read, the step it is at, and whether connect runs it.
Idle == [at |-> "idle", cmd |-> None, m |-> "a", art |-> None, policy |-> None,
         entry |-> None, auto |-> FALSE]

Steps == {"read", "write", "ledger"}

Commanded ==
    [at : Steps, cmd : Commands, m : Machine, art : Artifacts \cup {None},
     policy : Policy \cup {None}, entry : Entries \cup {None}, auto : BOOLEAN]

SettingUp == [at : {"mkdir", "rename"}, cmd : {"setup"}, m : Machine,
              art : {None}, policy : {None}, entry : {None}, auto : {FALSE}]

Connects == [at : {"idle", "offer", "challenge", "accept", "confirm",
                   "done", "failed"},
             m : Machine, id : Id \cup {None}, policy : Policy \cup {None}]

EnrollmentInit ==
    /\ key = [m \in Machine |-> 0]
    /\ temp = [m \in Machine |-> {}]
    /\ ledger = [m \in Machine |-> [i \in Id |-> None]]
    /\ trust = [m \in Machine |-> None]
    /\ sent = {}
    /\ proc = [p \in Process |-> Idle]
    /\ connect = [at |-> "idle", m |-> "a", id |-> None, policy |-> None]

-----------------------------------------------------------------------------
(* Plausible defects, used to show that the properties below can fail.     *)

\* The ledger entry is opened with "w".
MutantCanCreateEntry(m, i) == TRUE

\* The initiator's record is active as soon as the challenge is verified.
MutantToState(cmd) == IF cmd = "challenge" THEN "confirming"
                      ELSE IF cmd = "prepare" THEN "pending"
                      ELSE IF cmd = "revoke" THEN "revoked"
                      ELSE "active"

\* The rename replaces an identity that another setup has put in place.
MutantRenamed(m) == key[m] + 1

-----------------------------------------------------------------------------
(* The identity of a machine.                                              *)

Become(p, r) == proc' = [proc EXCEPT ![p] = r]

\* setupMachineIdentity, for a machine that has no identity directory.  The
\* look for leftover temporary directories and the mkdir are two steps.
SetupLook(p, m) ==
    /\ proc[p].at = "idle" /\ key[m] = 0 /\ temp[m] = {}
    /\ Become(p, [Idle EXCEPT !.at = "mkdir", !.cmd = "setup", !.m = m])
    /\ UNCHANGED <<key, temp, ledger, trust, sent, connect>>

SetupMkdir(p) ==
    /\ proc[p].at = "mkdir"
    /\ temp' = [temp EXCEPT ![proc[p].m] = IF key[proc[p].m] = 0
                                           THEN @ \cup {p} ELSE @]
    /\ Become(p, [proc[p] EXCEPT !.at = "rename"])
    /\ UNCHANGED <<key, ledger, trust, sent, connect>>

\* renameSync onto an identity that exists fails: the process removes its own
\* directory and uses the identity that is there.  Nobody looks at temporary
\* directories once there is an identity, so they are forgotten here.
Renamed(m) == IF key[m] = 0 THEN 1 ELSE key[m]

SetupRename(p) ==
    LET m == proc[p].m
    IN /\ proc[p].at = "rename"
       /\ key' = [key EXCEPT ![m] = Renamed(m)]
       /\ temp' = [temp EXCEPT ![m] = {}]
       /\ Become(p, Idle)
       /\ UNCHANGED <<ledger, trust, sent, connect>>

\* The operator removes what a dead setup left.
RemoveLeftover(m) ==
    /\ temp[m] # {}
    /\ \A p \in temp[m] : proc[p].at # "rename" \/ proc[p].m # m
    /\ temp' = [temp EXCEPT ![m] = {}]
    /\ UNCHANGED <<key, ledger, trust, sent, proc, connect>>

\* loadMachineSigningKeys, readMachineIdentityStatus.
HasIdentity(m) == key[m] # 0

-----------------------------------------------------------------------------
(* The ledger and the trust record.                                        *)

\* createLedgerEntry opens with "wx": it fails when the entry exists.
CanCreateEntry(m, i) == ledger[m][i] = None

\* updateLedgerEntry replaces the entry by the one read before, with its new
\* stage.
SetEntry(m, i, e) == ledger' = [ledger EXCEPT ![m][i] = e]

\* What advancePeerTrustFromEnrollmentProof refuses.
Refuses(r, policy) == r # None /\ (r.state = "revoked" \/ r.policy # policy)

\* ... and when it has nothing to write.
Settled(r, to) == r # None /\ r.state \in {"active", to}

ToState(cmd) == IF cmd \in {"challenge", "accept"} THEN "confirming"
                ELSE IF cmd = "prepare" THEN "pending"
                ELSE IF cmd = "revoke" THEN "revoked"
                ELSE "active"

-----------------------------------------------------------------------------
(* The stages.                                                             *)

\* randomUUID: an id that nobody has.
FreshId(i) == \A n \in Machine : ledger[n][i] = None

\* createEnrollmentOffer.
Offered(m, i, policy) ==
    /\ HasIdentity(m) /\ HasIdentity(OtherMachine(m))
    /\ FreshId(i)
    /\ SetEntry(m, i, [role |-> "initiator", stage |-> "offered",
                       op |-> policy, dp |-> None])
    /\ sent' = sent \cup {[kind |-> "offer", id |-> i, origin |-> m,
                           op |-> policy, dp |-> None]}
    /\ UNCHANGED <<key, temp, trust, proc>>

Offer(m, i, policy) == Offered(m, i, policy) /\ UNCHANGED connect

\* assertEchoesLedgerOrigin and assertEchoesLedgerFull.
EchoesOrigin(art, e) == art.op = e.op

EchoesFull(art, e) == art.op = e.op /\ art.dp = e.dp

\* createEnrollmentChallenge, up to the trust record: the answer's policy is
\* the responder's own.
ChallengeChecks(m, art) ==
    /\ art.kind = "offer" /\ art.origin = OtherMachine(m) /\ HasIdentity(m)
    /\ ledger[m][art.id] = None

\* createEnrollmentAccept.
AcceptChecks(m, art) ==
    LET e == ledger[m][art.id]
    IN /\ art.kind = "challenge" /\ art.origin = m
       /\ e # None /\ e.role = "initiator" /\ e.stage = "offered"
       /\ EchoesOrigin(art, e)

\* createEnrollmentConfirm.
ConfirmChecks(m, art) ==
    LET e == ledger[m][art.id]
    IN /\ art.kind = "accept" /\ art.origin = OtherMachine(m)
       /\ e # None /\ e.role = "responder" /\ e.stage = "challenged"
       /\ EchoesFull(art, e)

\* finalizeEnrollment.
FinalizeChecks(m, art) ==
    LET e == ledger[m][art.id]
    IN /\ art.kind = "confirm" /\ art.origin = m
       /\ e # None /\ e.role = "initiator" /\ e.stage = "accepted"
       /\ EchoesFull(art, e)

\* The policy a stage pins: the responder's own in a challenge, afterwards the
\* one of its side of the ledger.
Pinned(m, cmd, art, policy) ==
    CASE cmd = "challenge" -> policy
      [] cmd = "confirm" -> ledger[m][art.id].dp
      [] OTHER -> ledger[m][art.id].op

Checks(m, cmd, art) ==
    \/ cmd = "challenge" /\ ChallengeChecks(m, art)
    \/ cmd = "accept" /\ AcceptChecks(m, art)
    \/ cmd = "confirm" /\ ConfirmChecks(m, art)
    \/ cmd = "finalize" /\ FinalizeChecks(m, art)

\* A stage that passes its checks; one that does not has no effect.
Begun(p, m, cmd, art, policy, auto) ==
    /\ proc[p].at = "idle" /\ art \in sent
    /\ Checks(m, cmd, art)
    /\ Become(p, [at |-> "read", cmd |-> cmd, m |-> m, art |-> art,
                  policy |-> Pinned(m, cmd, art, policy),
                  entry |-> ledger[m][art.id], auto |-> auto])
    /\ UNCHANGED <<key, temp, ledger, trust, sent>>

Begin(p, m, cmd, art, policy) ==
    /\ Begun(p, m, cmd, art, policy, FALSE)
    /\ UNCHANGED connect

\* preparePeerTrust and revokePeerTrust, up to the read of the record.
BeginTrust(p, m, cmd, policy) ==
    /\ proc[p].at = "idle" /\ HasIdentity(m) /\ HasIdentity(OtherMachine(m))
    /\ Become(p, [Idle EXCEPT !.at = "read", !.cmd = cmd, !.m = m,
                              !.policy = policy])
    /\ UNCHANGED <<key, temp, ledger, trust, sent, connect>>

\* What connectPeerOverSsh makes of the end of a step it ran.
Reported(p, ok) ==
    connect' = IF ~proc[p].auto THEN connect
               ELSE [connect EXCEPT !.at =
                       IF ~ok THEN "failed"
                       ELSE IF proc[p].cmd = "finalize" THEN "done"
                       ELSE proc[p].cmd]

\* The read of the trust record and the tests that follow it.
ReadRecord(p) ==
    LET r == trust[proc[p].m]
        cmd == proc[p].cmd
    IN /\ proc[p].at = "read"
       /\ IF cmd = "prepare" THEN
            /\ Become(p, IF r = None THEN [proc[p] EXCEPT !.at = "write"]
                         ELSE Idle)
            /\ UNCHANGED connect
          ELSE IF cmd = "revoke" THEN
            /\ Become(p, IF r # None /\ r.state # "revoked"
                         THEN [proc[p] EXCEPT !.at = "write",
                                              !.policy = r.policy]
                         ELSE Idle)
            /\ UNCHANGED connect
          ELSE IF Refuses(r, proc[p].policy) THEN
            Become(p, Idle) /\ Reported(p, FALSE)
          ELSE
            /\ Become(p, [proc[p] EXCEPT !.at =
                            IF Settled(r, ToState(cmd)) THEN "ledger"
                            ELSE "write"])
            /\ UNCHANGED connect
       /\ UNCHANGED <<key, temp, ledger, trust, sent>>

\* writeRecord: a rename, whatever the record is by now.
WriteRecord(p) ==
    /\ proc[p].at = "write"
    /\ trust' = [trust EXCEPT ![proc[p].m] =
                   [state |-> ToState(proc[p].cmd), policy |-> proc[p].policy]]
    /\ Become(p, IF proc[p].cmd \in {"prepare", "revoke"} THEN Idle
                 ELSE [proc[p] EXCEPT !.at = "ledger"])
    /\ UNCHANGED <<key, temp, ledger, sent, connect>>

Emit(art) == sent' = sent \cup {art}

\* The end of createEnrollmentChallenge: the entry is created or the command
\* fails.
ChallengeEnd(p) ==
    LET art == [proc[p].art EXCEPT !.kind = "challenge", !.dp = proc[p].policy]
    IN /\ proc[p].at = "ledger" /\ proc[p].cmd = "challenge"
       /\ IF CanCreateEntry(proc[p].m, art.id)
          THEN /\ SetEntry(proc[p].m, art.id,
                           [role |-> "responder", stage |-> "challenged",
                            op |-> art.op, dp |-> art.dp])
               /\ Emit(art)
               /\ Reported(p, TRUE)
          ELSE Reported(p, FALSE) /\ UNCHANGED <<ledger, sent>>
       /\ Become(p, Idle)
       /\ UNCHANGED <<key, temp, trust>>

AcceptEnd(p) ==
    LET art == [proc[p].art EXCEPT !.kind = "accept"]
    IN /\ proc[p].at = "ledger" /\ proc[p].cmd = "accept"
       /\ SetEntry(proc[p].m, art.id,
                   [proc[p].entry EXCEPT !.stage = "accepted", !.dp = art.dp])
       /\ Emit(art)
       /\ Reported(p, TRUE)
       /\ Become(p, Idle)
       /\ UNCHANGED <<key, temp, trust>>

ConfirmEnd(p) ==
    LET art == [proc[p].art EXCEPT !.kind = "confirm"]
    IN /\ proc[p].at = "ledger" /\ proc[p].cmd = "confirm"
       /\ SetEntry(proc[p].m, art.id,
                   [proc[p].entry EXCEPT !.stage = "confirmed"])
       /\ Emit(art)
       /\ Reported(p, TRUE)
       /\ Become(p, Idle)
       /\ UNCHANGED <<key, temp, trust>>

FinalizeEnd(p) ==
    /\ proc[p].at = "ledger" /\ proc[p].cmd = "finalize"
    /\ SetEntry(proc[p].m, proc[p].art.id,
                [proc[p].entry EXCEPT !.stage = "confirmed"])
    /\ Reported(p, TRUE)
    /\ Become(p, Idle)
    /\ UNCHANGED <<key, temp, trust, sent>>

-----------------------------------------------------------------------------
(* connectPeerOverSsh runs the exchange itself, one step after another, the *)
(* responder's over ssh.                                                    *)

\* Both setups have run; loopbackSshPolicy gives both sides their policy.
ConnectStart(m, i, policy) ==
    /\ connect.at \in {"idle", "done", "failed"}
    /\ Offered(m, i, policy)
    /\ connect' = [at |-> "offer", m |-> m, id |-> i, policy |-> policy]

\* The stage that follows, and the machine that runs it.
NextStage == CASE connect.at = "offer" -> "challenge"
               [] connect.at = "challenge" -> "accept"
               [] connect.at = "accept" -> "confirm"
               [] connect.at = "confirm" -> "finalize"
               [] OTHER -> "none"

Remote(cmd) == cmd \in {"challenge", "confirm"}

RunsOn(cmd) == IF Remote(cmd) THEN OtherMachine(connect.m) ELSE connect.m

Waiting == \E q \in Process : proc[q].auto

\* remoteStep, runEnrollRemoteStep, or the local call of the stage: it is given
\* the artifact that the step before printed.
ConnectStep(p, art) ==
    /\ connect.at \in {"offer", "challenge", "accept", "confirm"}
    /\ ~Waiting
    /\ art.id = connect.id /\ art.kind = connect.at
    /\ Begun(p, RunsOn(NextStage), NextStage, art, connect.policy, TRUE)
    /\ UNCHANGED connect

\* ssh breaks or times out, or a check fails: the run ends, a remote process
\* that runs goes on without it.
ConnectFails ==
    /\ connect.at \in {"offer", "challenge", "accept", "confirm"}
    /\ \A q \in Process : proc[q].auto => Remote(proc[q].cmd)
    /\ connect' = [connect EXCEPT !.at = "failed"]
    /\ proc' = [q \in Process |-> IF proc[q].auto THEN [proc[q] EXCEPT !.auto = FALSE]
                                 ELSE proc[q]]
    /\ UNCHANGED <<key, temp, ledger, trust, sent>>

-----------------------------------------------------------------------------
\* A process dies between two steps.  The connect run dies with its own.
Crash(p) ==
    /\ proc[p].at # "idle"
    /\ Become(p, Idle)
    /\ Reported(p, FALSE)
    /\ UNCHANGED <<key, temp, ledger, trust, sent>>

EnrollmentNext ==
    \/ \E p \in Process :
         \/ \E m \in Machine : SetupLook(p, m)
         \/ SetupMkdir(p) \/ SetupRename(p)
         \/ \E m \in Machine, cmd \in Commands \ {"prepare", "revoke"},
               art \in sent, policy \in Policy :
              /\ cmd = "challenge" \/ policy = art.op
              /\ Begin(p, m, cmd, art, policy)
         \/ \E m \in Machine, policy \in Policy :
              BeginTrust(p, m, "prepare", policy)
         \/ \E m \in Machine : BeginTrust(p, m, "revoke", None)
         \/ ReadRecord(p) \/ WriteRecord(p)
         \/ ChallengeEnd(p) \/ AcceptEnd(p) \/ ConfirmEnd(p) \/ FinalizeEnd(p)
         \/ \E art \in sent : ConnectStep(p, art)
         \/ Crash(p)
    \/ \E m \in Machine : RemoveLeftover(m)
    \/ \E m \in Initiators, i \in Id, policy \in Policy :
         Offer(m, i, policy) \/ ConnectStart(m, i, policy)
    \/ ConnectFails

EnrollmentSpec == EnrollmentInit /\ [][EnrollmentNext]_enrollmentVars

-----------------------------------------------------------------------------
(* Properties.                                                             *)

EnrollmentTypeOK ==
    /\ key \in [Machine -> 0..1]
    /\ temp \in [Machine -> SUBSET Process]
    /\ ledger \in [Machine -> [Id -> Entries \cup {None}]]
    /\ trust \in [Machine -> Records \cup {None}]
    /\ sent \subseteq Artifacts
    /\ proc \in [Process -> Commanded \cup SettingUp \cup {Idle}]
    /\ connect \in Connects

\* The initiator of an enrollment and its responder.
Initiates(m, i) == ledger[m][i] # None /\ ledger[m][i].role = "initiator"

\* The two ledgers of an enrollment tell the same story: once the initiator
\* has accepted, the responder has an entry with the same two policies.
Agree(m, i) ==
    /\ Initiates(m, i)
    /\ ledger[m][i].stage \in {"accepted", "confirmed"}
    /\ ledger[OtherMachine(m)][i] # None
    /\ ledger[OtherMachine(m)][i].role = "responder"
    /\ ledger[m][i].op = ledger[OtherMachine(m)][i].op
    /\ ledger[m][i].dp = ledger[OtherMachine(m)][i].dp

\* Whatever artifacts are replayed and however the commands of one machine
\* interleave, an offer is answered by one challenge only, so that the ledgers
\* of the two machines agree on what was enrolled (createLedgerEntry).
LedgersAgree ==
    \A m \in Machine, i \in Id :
      Initiates(m, i) /\ ledger[m][i].stage # "offered" => Agree(m, i)

\* A record is active only by a completed exchange about its policy: the peer
\* has verified this machine too, and has pinned the policies of the same
\* enrollment ("active: both this store's verification of the peer AND the
\* peer's acknowledgement", peer-trust.ts:22).
ActiveIsProven ==
    \A m \in Machine :
      trust[m] # None /\ trust[m].state = "active" =>
        \E i \in Id :
          \/ Agree(m, i) /\ ledger[m][i].op = trust[m].policy
             /\ ledger[OtherMachine(m)][i].stage = "confirmed"
          \/ Agree(OtherMachine(m), i) /\ ledger[m][i].dp = trust[m].policy

\* When connect reports success, the enrollment is complete on both machines,
\* although each of its steps raced with other commands.
ConnectIsTruthful ==
    connect.at = "done" =>
      /\ Agree(connect.m, connect.id)
      /\ ledger[OtherMachine(connect.m)][connect.id].stage = "confirmed"

\* Setups that race, or follow a crash, never replace an identity: the peers
\* have pinned its key (setupMachineIdentity).
IdentityKept == [][\A m \in Machine : key[m] # 0 => key'[m] = key[m]]_enrollmentVars
=============================================================================
