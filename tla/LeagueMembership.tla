-------------------------- MODULE LeagueMembership --------------------------
(* The membership of one league before it starts (leagueService.ts and     *)
(* createPaymentRequirement of financialService.ts): joining, invitation   *)
(* links of a private league, and the transitions of the league's status.  *)
(*                                                                         *)
(* Every request first reads the league and checks it, then commits one    *)
(* database transaction; other requests may commit in between.             *)
EXTENDS Integers, FiniteSets

CONSTANTS
    Users,          \* users other than the creator
    Creator,
    Requests,       \* HTTP requests to join, in flight at the same time
    Invitations,    \* invitation links
    UseLimits,      \* the maxUses an invitation may be created with
    MinMembers, MaxMembers,
    NoInvitation

ASSUME MembershipAssumption ==
    /\ MinMembers \in Nat /\ MaxMembers \in Nat /\ 2 <= MinMembers /\ MinMembers <= MaxMembers
    /\ UseLimits \subseteq Nat \ {0}
    /\ Creator \notin Users /\ NoInvitation \notin Invitations

VARIABLES
    isPrivate,      \* league.isPrivate
    leagueStatus,   \* league.status
    currentMembers, \* league.currentMembers
    memberOf,       \* leagueMember.status of each user, "none" without a row
    joinedWith,     \* history: the invitation a member's row was created with
    invitation,     \* leagueInvitation rows
    joinRequest,    \* what each join request has read
    transition,     \* a transitionStatus call that has read the league
    phase           \* "open", "deadline" passed, then "kickoff" passed

membershipVars == <<isPrivate, leagueStatus, currentMembers, memberOf, joinedWith,
                    invitation, joinRequest, transition, phase>>
leagueRow == <<isPrivate, leagueStatus, currentMembers>>

Everyone == Users \cup {Creator}
NoRequest == [pc |-> "none"]
NoTransition == [pc |-> "none"]
NoLink == [maxUses |-> 0, usesCount |-> 0, usedAt |-> FALSE, revoked |-> FALSE,
           expired |-> FALSE]
MemberRows == {u \in Everyone : memberOf[u] # "none"}

\* invitationState = "ACTIVE".
Usable(inv) == /\ inv.usesCount < inv.maxUses
               /\ ~ inv.revoked
               /\ ~ inv.expired

\* createLeague: the creator is the first member, awaiting payment.
MembershipInit ==
    /\ isPrivate \in BOOLEAN
    /\ leagueStatus = "UPCOMING"
    /\ currentMembers = 1
    /\ memberOf = [u \in Everyone |-> IF u = Creator THEN "PENDING" ELSE "none"]
    /\ joinedWith = [u \in Everyone |-> NoInvitation]
    /\ invitation = [i \in Invitations |-> NoLink]
    /\ joinRequest = [r \in Requests |-> NoRequest]
    /\ transition = NoTransition
    /\ phase = "open"

-----------------------------------------------------------------------------
(* Invitations.                                                            *)

CreateInvitation(i, n) ==
    /\ invitation[i] = NoLink
    /\ isPrivate /\ leagueStatus = "UPCOMING"
    /\ invitation' = [invitation EXCEPT ![i] = [NoLink EXCEPT !.maxUses = n]]
    /\ UNCHANGED <<leagueRow, memberOf, joinedWith, joinRequest, transition, phase>>

\* The read only rejects; the conditional update decides.
RevokeInvitation(i) ==
    /\ Usable(invitation[i])
    /\ invitation' = [invitation EXCEPT ![i].revoked = TRUE]
    /\ UNCHANGED <<leagueRow, memberOf, joinedWith, joinRequest, transition, phase>>

InvitationExpires(i) ==
    /\ invitation[i] # NoLink /\ ~ invitation[i].expired
    /\ invitation' = [invitation EXCEPT ![i].expired = TRUE]
    /\ UNCHANGED <<leagueRow, memberOf, joinedWith, joinRequest, transition, phase>>

-----------------------------------------------------------------------------
(* Joining.                                                                *)

\* joinLeague up to its transaction: every check is made on what was read, and
\* the new member count is computed from it.  acceptInvitation is the same
\* call with the link's league.
JoinReads(r, u, i) ==
    /\ joinRequest[r] = NoRequest
    /\ IF isPrivate THEN i # NoInvitation /\ Usable(invitation[i]) ELSE i = NoInvitation
    /\ leagueStatus = "UPCOMING"
    /\ phase = "open"
    /\ currentMembers < MaxMembers
    /\ memberOf[u] = "none"
    /\ joinRequest' = [joinRequest EXCEPT ![r] =
        [pc |-> "commit", user |-> u, link |-> i, newMemberCount |-> currentMembers + 1,
         usesSeen |-> IF isPrivate THEN invitation[i].usesCount ELSE 0]]
    /\ UNCHANGED <<leagueRow, memberOf, joinedWith, invitation, transition, phase>>

\* Mutant: the use is counted from what the request read.
ConsumeInvitationAsRead(q) ==
    IF q.link = NoInvitation THEN UNCHANGED invitation
    ELSE invitation' = [invitation EXCEPT
            ![q.link].usesCount = q.usesSeen + 1,
            ![q.link].usedAt = q.usesSeen + 1 >= invitation[q.link].maxUses]

\* The conditional update of the invitation inside the transaction.  usedAt is
\* decided from the use count that was read.
ConsumeInvitation(q) ==
    IF q.link = NoInvitation THEN UNCHANGED invitation
    ELSE /\ Usable(invitation[q.link])
         /\ invitation' = [invitation EXCEPT
                ![q.link].usesCount = @ + 1,
                ![q.link].usedAt = @ \/ q.usesSeen + 1 >= invitation[q.link].maxUses]

\* The transaction: consume the link, insert the row (leagueId, userId is
\* unique), write the member count computed before.
JoinCommits(r) ==
    LET q == joinRequest[r] IN
    /\ q # NoRequest
    /\ ConsumeInvitation(q)
    /\ memberOf[q.user] = "none"
    /\ memberOf' = [memberOf EXCEPT ![q.user] = "PENDING"]
    /\ joinedWith' = [joinedWith EXCEPT ![q.user] = q.link]
    /\ currentMembers' = q.newMemberCount
    /\ joinRequest' = [joinRequest EXCEPT ![r] = NoRequest]
    /\ UNCHANGED <<isPrivate, leagueStatus, transition, phase>>

\* Mutant: the count is written outside the transaction.
JoinRollsBackKeepingCount(r) ==
    LET q == joinRequest[r] IN
    /\ q # NoRequest
    /\ \/ memberOf[q.user] # "none"
       \/ q.link # NoInvitation /\ ~ Usable(invitation[q.link])
    /\ joinRequest' = [joinRequest EXCEPT ![r] = NoRequest]
    /\ currentMembers' = q.newMemberCount
    /\ UNCHANGED <<isPrivate, leagueStatus, memberOf, joinedWith, invitation, transition,
                   phase>>

\* Any statement of the transaction fails: all of it is rolled back.
JoinRollsBack(r) ==
    LET q == joinRequest[r] IN
    /\ q # NoRequest
    /\ \/ memberOf[q.user] # "none"
       \/ q.link # NoInvitation /\ ~ Usable(invitation[q.link])
    /\ joinRequest' = [joinRequest EXCEPT ![r] = NoRequest]
    /\ UNCHANGED <<leagueRow, memberOf, joinedWith, invitation, transition, phase>>

\* createPaymentRequirement inserts the row of a user who pays for a public
\* league without having joined it; it leaves currentMembers alone.
CreatePaymentRequirement(u) ==
    /\ leagueStatus = "UPCOMING"
    /\ ~ isPrivate
    /\ memberOf[u] = "none"
    /\ memberOf' = [memberOf EXCEPT ![u] = "PENDING"]
    /\ UNCHANGED <<leagueRow, joinedWith, invitation, joinRequest, transition, phase>>

\* The entry fee is confirmed (DepositPipeline), also after a refund.
PaymentConfirmed(u) ==
    /\ memberOf[u] \in {"PENDING", "REFUNDED"}
    /\ memberOf' = [memberOf EXCEPT ![u] = "ACTIVE"]
    /\ UNCHANGED <<leagueRow, joinedWith, invitation, joinRequest, transition, phase>>

-----------------------------------------------------------------------------
(* The status of the league.                                               *)

\* cancelLeague and cancelUnderfilledLeagues look at an UPCOMING league ...
CancelChecks ==
    /\ transition = NoTransition
    /\ leagueStatus = "UPCOMING"
    /\ transition' = [pc |-> "read", target |-> "CANCELLED"]
    /\ UNCHANGED <<leagueRow, memberOf, joinedWith, invitation, joinRequest, phase>>

\* (isUnderfilledAfterKickoff)
UnderfilledChecks ==
    /\ transition = NoTransition
    /\ leagueStatus = "UPCOMING"
    /\ phase = "kickoff" /\ currentMembers < MinMembers
    /\ transition' = [pc |-> "read", target |-> "CANCELLED"]
    /\ UNCHANGED <<leagueRow, memberOf, joinedWith, invitation, joinRequest, phase>>

\* ... the other callers of transitionStatus look at nothing.
TransitionCalled(target) ==
    /\ transition = NoTransition
    /\ transition' = [pc |-> "read", target |-> target]
    /\ UNCHANGED <<leagueRow, memberOf, joinedWith, invitation, joinRequest, phase>>

\* transitionStatus reads the league again and applies its own rules.
TransitionAllowed(target) ==
    /\ leagueStatus \notin {"COMPLETED", "CANCELLED", target}
    /\ target = "ACTIVE" => leagueStatus = "UPCOMING" /\ currentMembers >= MinMembers
    /\ target = "COMPLETED" => leagueStatus = "ACTIVE"

TransitionReads ==
    /\ transition.pc = "read"
    /\ transition' = IF TransitionAllowed(transition.target)
                     THEN [transition EXCEPT !.pc = "write"] ELSE NoTransition
    /\ UNCHANGED <<leagueRow, memberOf, joinedWith, invitation, joinRequest, phase>>

\* Its transaction.  A cancellation marks every member row REFUNDED.
TransitionWrites ==
    /\ transition.pc = "write"
    /\ leagueStatus' = transition.target
    /\ memberOf' = IF transition.target = "CANCELLED"
                   THEN [u \in Everyone |-> IF u \in MemberRows THEN "REFUNDED" ELSE "none"]
                   ELSE memberOf
    /\ transition' = NoTransition
    /\ UNCHANGED <<isPrivate, currentMembers, joinedWith, invitation, joinRequest, phase>>

\* The deadline of the start gameweek, then its first kickoff, pass.
TimePasses ==
    /\ phase # "kickoff"
    /\ phase' = IF phase = "open" THEN "deadline" ELSE "kickoff"
    /\ UNCHANGED <<leagueRow, memberOf, joinedWith, invitation, joinRequest, transition>>

MembershipNext ==
    \/ \E i \in Invitations :
        \/ \E n \in UseLimits : CreateInvitation(i, n)
        \/ RevokeInvitation(i)
        \/ InvitationExpires(i)
    \/ \E r \in Requests :
        \/ \E u \in Users, i \in Invitations \cup {NoInvitation} : JoinReads(r, u, i)
        \/ JoinCommits(r)
        \/ JoinRollsBack(r)
    \/ \E u \in Users : CreatePaymentRequirement(u)
    \/ \E u \in Everyone : PaymentConfirmed(u)
    \/ CancelChecks
    \/ UnderfilledChecks
    \/ \E target \in {"ACTIVE", "COMPLETED"} : TransitionCalled(target)
    \/ TransitionReads
    \/ TransitionWrites
    \/ TimePasses

MembershipSpec == MembershipInit /\ [][MembershipNext]_membershipVars

-----------------------------------------------------------------------------
(* Properties.                                                             *)

\* "Conditional update enforces the usage cap atomically under concurrent
\* requests" (joinLeague): a link admits at most maxUses members, every use it
\* counts is a membership, and a private league has no member without a use.
InvitationsAccounted ==
    LET Admitted(i) == {u \in Everyone : joinedWith[u] = i} IN
    /\ \A i \in Invitations :
        /\ Cardinality(Admitted(i)) = invitation[i].usesCount
        /\ invitation[i].usesCount <= invitation[i].maxUses
    /\ isPrivate => \A u \in MemberRows \ {Creator} : joinedWith[u] # NoInvitation

\* currentMembers is written from a stale read and payments insert rows behind
\* its back, so it may fall behind the membership; it never runs ahead of it,
\* so a league is never shown full or activated on members it does not have.
CountNeverOverstates ==
    /\ 1 <= currentMembers /\ currentMembers <= MaxMembers
    /\ currentMembers <= Cardinality(MemberRows)
    /\ leagueStatus = "ACTIVE" => Cardinality(MemberRows) >= MinMembers
=============================================================================
