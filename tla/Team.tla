-------------------------------- MODULE Team --------------------------------
(***************************************************************************)
(* Companies, their seats and the invitations to them (provisioning.ts,    *)
(* team.ts, auth/verification.ts, the accept-invite route).                *)
(*                                                                         *)
(* A call is one request, and each of its steps one access to the database *)
(* (provisioning is a transaction under an advisory lock).  Roles matter   *)
(* as far as being the owner does; sessions, passwords and conversations   *)
(* are left out.                                                           *)
(*                                                                         *)
(* Companies are founded by people who sign up.  The platform's staff may  *)
(* also found one for an e-mail address, or for nobody: those calls take a *)
(* lock of their own, do not ask what the person owns, and are left out.   *)
(***************************************************************************)
EXTENDS Naturals, FiniteSets

CONSTANTS
  Companies,    \* ids for tenants
  People,
  Calls,        \* requests that may be under way at once
  Invitations,  \* ids for verification_tokens
  SeatLimit,    \* platform.maxUsers, 0 for no limit
  NoCompany, NoPerson, NoInvitation, NoCall

ASSUME TeamAssumption ==
  /\ SeatLimit \in Nat
  /\ IsFiniteSet(Calls)
  /\ NoCompany \notin Companies /\ NoPerson \notin People
  /\ NoInvitation \notin Invitations /\ NoCall \notin Calls

VARIABLES
  company,     \* tenants that exist
  seat,        \* tenant_memberships
  invitation,  \* verification_tokens of TEAM_INVITE
  call,        \* where each request stands
  founding,    \* who holds the advisory lock of each person
  accepted     \* history: how often each invitation was accepted

teamVars == <<company, seat, invitation, call, founding, accepted>>

Seat == [row : BOOLEAN, owner : BOOLEAN, joined : BOOLEAN, off : BOOLEAN]

Invitation == [status : {"NONE", "LIVE", "DEAD"}, company : Companies \cup {NoCompany},
               person : People \cup {NoPerson}]

CallSteps == {"idle", "found", "create", "look", "insert", "revive", "retire", "mint",
              "consume", "activate", "on", "off", "remove"}

Call == [at : CallSteps, company : Companies \cup {NoCompany}, person : People \cup {NoPerson},
         invitation : Invitations \cup {NoInvitation}]

TeamTypeOK ==
  /\ company \subseteq Companies
  /\ seat \in [Companies \X People -> Seat]
  /\ invitation \in [Invitations -> Invitation]
  /\ call \in [Calls -> Call]
  /\ founding \in [People -> Calls \cup {NoCall}]
  /\ accepted \in [Invitations -> 0..Cardinality(Calls)]

NoSeat == [row |-> FALSE, owner |-> FALSE, joined |-> FALSE, off |-> FALSE]
NoOneInvited == [status |-> "NONE", company |-> NoCompany, person |-> NoPerson]
Resting == [at |-> "idle", company |-> NoCompany, person |-> NoPerson, invitation |-> NoInvitation]

TeamInit ==
  /\ company = {}
  /\ seat = [s \in Companies \X People |-> NoSeat]
  /\ invitation = [i \in Invitations |-> NoOneInvited]
  /\ call = [c \in Calls |-> Resting]
  /\ founding = [p \in People |-> NoCall]
  /\ accepted = [i \in Invitations |-> 0]

-----------------------------------------------------------------------------
CallAt(c, step) == call[c].at = step

CallTo(c, step) == call' = [call EXCEPT ![c].at = step]

Hang(c) == call' = [call EXCEPT ![c] = Resting]

Begin(c, step, k, p) ==
  /\ CallAt(c, "idle")
  /\ call' = [call EXCEPT ![c] = [Resting EXCEPT !.at = step, !.company = k, !.person = p]]

\* The membership a call is about.
Of(c) == <<call[c].company, call[c].person>>

Unlocked(c) == [p \in People |-> IF founding[p] = c THEN NoCall ELSE founding[p]]

OwnerOf(k, p) == k \in company /\ seat[k, p].owner

-----------------------------------------------------------------------------
(* provisionTenant, for a user who signed up (owner.kind = "existing")     *)

\* Mutant: nobody waits for the advisory lock.
MayFoundMutant(p) == TRUE

MayFound(p) == founding[p] = NoCall

Provision(c, p) ==
  /\ MayFound(p)
  /\ Begin(c, "found", NoCompany, p)
  /\ founding' = [founding EXCEPT ![p] = c]
  /\ UNCHANGED <<company, seat, invitation, accepted>>

\* The tenant the user owns already is the answer.
ProvisionRead(c) ==
  LET p == call[c].person IN
  /\ CallAt(c, "found")
  /\ IF \E k \in Companies : OwnerOf(k, p)
     THEN Hang(c) /\ founding' = Unlocked(c)
     ELSE CallTo(c, "create") /\ UNCHANGED founding
  /\ UNCHANGED <<company, seat, invitation, accepted>>

ProvisionCommit(c) ==
  LET p == call[c].person IN
  /\ CallAt(c, "create")
  /\ \E k \in Companies \ company :
       /\ company' = company \cup {k}
       /\ seat' = [seat EXCEPT ![<<k, p>>] = [row |-> TRUE, owner |-> TRUE, joined |-> TRUE, off |-> FALSE]]
  /\ Hang(c) /\ founding' = Unlocked(c)
  /\ UNCHANGED <<invitation, accepted>>

\* Locks go with the transaction.
CallDies(c) ==
  /\ ~CallAt(c, "idle")
  /\ Hang(c) /\ founding' = Unlocked(c)
  /\ UNCHANGED <<company, seat, invitation, accepted>>

-----------------------------------------------------------------------------
(* inviteMember, resendInvite, resendInviteToUser, issueToken               *)

SeatsTaken(k) == Cardinality({p \in People : seat[k, p].row /\ ~seat[k, p].off})

Invite(c, k, p) ==
  /\ k \in company
  /\ SeatLimit > 0 => SeatsTaken(k) < SeatLimit
  /\ Begin(c, "look", k, p)
  /\ UNCHANGED <<company, seat, invitation, founding, accepted>>

InviteLook(c) ==
  LET s == seat[Of(c)] IN
  /\ CallAt(c, "look")
  /\ \/ s.row /\ ~s.off /\ Hang(c)
     \/ s.row /\ s.off /\ CallTo(c, "revive")
     \/ ~s.row /\ CallTo(c, "insert")
  /\ UNCHANGED <<company, seat, invitation, founding, accepted>>

\* One membership per tenant and user, says the unique index.
SeatInsert(c) ==
  /\ CallAt(c, "insert")
  /\ IF seat[Of(c)].row
     THEN Hang(c) /\ UNCHANGED seat
     ELSE CallTo(c, "retire") /\ seat' = [seat EXCEPT ![Of(c)] = [NoSeat EXCEPT !.row = TRUE]]
  /\ UNCHANGED <<company, invitation, founding, accepted>>

\* By id; a row that is gone stays gone.
Update(s, row) == seat' = [seat EXCEPT ![s] = IF @.row THEN row ELSE @]

\* The role is set as well: an owner is never off, so owner stays what it is.
InviteRevive(c) ==
  /\ CallAt(c, "revive")
  /\ Update(Of(c), [seat[Of(c)] EXCEPT !.off = FALSE, !.joined = FALSE])
  /\ CallTo(c, "retire")
  /\ UNCHANGED <<company, invitation, founding, accepted>>

Resend(c, k, p) ==
  /\ seat[k, p].row /\ ~seat[k, p].joined /\ ~seat[k, p].off
  /\ Begin(c, "retire", k, p)
  /\ UNCHANGED <<company, seat, invitation, founding, accepted>>

\* Every invitation of the person, whatever company it is from.
Retire(c) ==
  /\ CallAt(c, "retire")
  /\ invitation' = [i \in Invitations |->
                      IF invitation[i].status = "LIVE" /\ invitation[i].person = call[c].person
                      THEN [invitation[i] EXCEPT !.status = "DEAD"] ELSE invitation[i]]
  /\ CallTo(c, "mint")
  /\ UNCHANGED <<company, seat, founding, accepted>>

Mint(c) ==
  /\ CallAt(c, "mint")
  /\ \E i \in Invitations :
       /\ invitation[i].status = "NONE"
       /\ invitation' = [invitation EXCEPT ![i] =
                           [status |-> "LIVE", company |-> call[c].company, person |-> call[c].person]]
  /\ Hang(c)
  /\ UNCHANGED <<company, seat, founding, accepted>>

\* A week passes.
InvitationExpires(i) ==
  /\ invitation[i].status = "LIVE"
  /\ invitation' = [invitation EXCEPT ![i].status = "DEAD"]
  /\ UNCHANGED <<company, seat, call, founding, accepted>>

-----------------------------------------------------------------------------
(* accept-invite: everything that can be refused is, then the link is spent.*)

Accept(c, i) ==
  /\ invitation[i].status = "LIVE"
  /\ CallAt(c, "idle")
  /\ call' = [call EXCEPT ![c] = [at |-> "consume", company |-> invitation[i].company,
                                  person |-> invitation[i].person, invitation |-> i]]
  /\ UNCHANGED <<company, seat, invitation, founding, accepted>>

\* Mutant: the update does not ask whether the token was consumed.
SpendableMutant(i) == TRUE

Spendable(i) == invitation[i].status = "LIVE"

ConsumeInviteToken(c) ==
  LET i == call[c].invitation IN
  /\ CallAt(c, "consume")
  /\ IF Spendable(i)
     THEN /\ invitation' = [invitation EXCEPT ![i].status = "DEAD"]
          /\ accepted' = [accepted EXCEPT ![i] = @ + 1]
          /\ CallTo(c, "activate")
     ELSE Hang(c) /\ UNCHANGED <<invitation, accepted>>
  /\ UNCHANGED <<company, seat, founding>>

\* A member who was deactivated meanwhile is active again.
Activate(c) ==
  /\ CallAt(c, "activate")
  /\ Update(Of(c), [seat[Of(c)] EXCEPT !.joined = TRUE, !.off = FALSE])
  /\ Hang(c)
  /\ UNCHANGED <<company, invitation, founding, accepted>>

-----------------------------------------------------------------------------
(* setMemberActive, removeMember                                            *)

IsLastActiveOwner(k, p) ==
  seat[k, p].owner /\ \A o \in People \ {p} : ~(seat[k, o].owner /\ ~seat[k, o].off)

ChangeSeat(c, k, p, step) ==
  /\ seat[k, p].row
  /\ step \in {"off", "remove"} => ~IsLastActiveOwner(k, p)
  /\ Begin(c, step, k, p)
  /\ UNCHANGED <<company, seat, invitation, founding, accepted>>

\* No seat is counted when a member is switched on again.
ChangeSeatWrite(c) ==
  /\ call[c].at \in {"on", "off", "remove"}
  /\ Update(Of(c), IF CallAt(c, "remove") THEN NoSeat
                   ELSE [seat[Of(c)] EXCEPT !.off = CallAt(c, "off")])
  /\ Hang(c)
  /\ UNCHANGED <<company, invitation, founding, accepted>>

CallStep(c) ==
  \/ ProvisionRead(c) \/ ProvisionCommit(c)
  \/ InviteLook(c) \/ SeatInsert(c) \/ InviteRevive(c) \/ Retire(c) \/ Mint(c)
  \/ ConsumeInviteToken(c) \/ Activate(c) \/ ChangeSeatWrite(c)

TeamNext ==
  \/ \E c \in Calls :
       \/ CallStep(c) \/ CallDies(c)
       \/ \E p \in People :
            \/ Provision(c, p)
            \/ \E k \in Companies :
                 \/ Invite(c, k, p) \/ Resend(c, k, p)
                 \/ \E step \in {"on", "off", "remove"} : ChangeSeat(c, k, p, step)
       \/ \E i \in Invitations : Accept(c, i)
  \/ \E i \in Invitations : InvitationExpires(i)

TeamSpec == TeamInit /\ [][TeamNext]_teamVars

-----------------------------------------------------------------------------
(* Properties.                                                             *)

\* "One owner, one tenant" (provisionTenant, for an owner of kind "existing"): a
\* double-clicked signup, a refreshed tab and a transaction that dies half-way leave
\* a person with one company, which keeps its owner.  Of companies that the
\* platform's staff found for somebody it says nothing.
OneCompanyPerFounder ==
  /\ \A p \in People : Cardinality({k \in Companies : OwnerOf(k, p)}) <= 1
  /\ \A k \in company : \E p \in People : OwnerOf(k, p) /\ ~seat[k, p].off

\* "The atomic single-use guard that stops two browsers accepting the same
\* invitation" (consumeInviteToken): an invitation is accepted at most once.
InvitationIsSpentOnce == \A i \in Invitations : accepted[i] <= 1
=============================================================================
