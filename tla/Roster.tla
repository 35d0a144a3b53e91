------------------------------- MODULE Roster -------------------------------
(***************************************************************************)
(* What a campaign promises about its members (campaignService.ts, its     *)
(* comments and types): whoever creates it is its DM, the others join and  *)
(* leave as players, DM and player swap in one step, and the character of  *)
(* a DM is parked until they play again.                                   *)
(*                                                                         *)
(* Every operation is one step here.  The promise ends with the first lost *)
(* update, a row overwritten by a request that had read an older one.      *)
(***************************************************************************)
CONSTANTS
  User,         \* the accounts
  Character,    \* the characters
  NoCharacter   \* null

VARIABLES
  rows,  \* the membership of every user: their role, active and parked character
  lost   \* whether an update was lost

vars == <<rows, lost>>

Row == [role : {"none", "player", "dm"}, active : Character \cup {NoCharacter},
        parked : Character \cup {NoCharacter}]

NotMember == [role |-> "none", active |-> NoCharacter, parked |-> NoCharacter]
NewMember(role) == [NotMember EXCEPT !.role = role]

\* The rows of a DM and a player who have changed places.
Demoted(m)  == [role |-> "player", active |-> m.parked, parked |-> NoCharacter]
Promoted(m) == [role |-> "dm", active |-> NoCharacter, parked |-> m.active]

DM == {u \in User : rows[u].role = "dm"}

TypeOK == rows \in [User -> Row] /\ lost \in BOOLEAN

Init == rows = [u \in User |-> NotMember] /\ lost = FALSE

Create(u) ==
  /\ \A v \in User : rows[v] = NotMember
  /\ rows' = [rows EXCEPT ![u] = NewMember("dm")]

Join(u) ==
  /\ DM # {} /\ rows[u] = NotMember
  /\ rows' = [rows EXCEPT ![u] = NewMember("player")]

Leave(u) ==
  /\ rows[u].role = "player"
  /\ rows' = [rows EXCEPT ![u] = NotMember]

Activate(u, c) ==
  /\ rows[u].role = "player"
  /\ rows' = [rows EXCEPT ![u].active = c]

Park(u, c) ==
  /\ rows[u].role = "dm" /\ rows[u].parked = NoCharacter
  /\ rows' = [rows EXCEPT ![u].parked = c]

Swap(d, p) ==
  /\ rows[d].role = "dm" /\ rows[p].role = "player"
  /\ rows' = [rows EXCEPT ![d] = Demoted(@), ![p] = Promoted(@)]

Operation ==
  \/ \E u \in User : Create(u) \/ Join(u) \/ Leave(u)
  \/ \E u \in User, c \in Character : Activate(u, c) \/ Park(u, c)
  \/ \E d, p \in User : Swap(d, p)

Next ==
  \/ ~lost /\ Operation /\ UNCHANGED lost
  \/ lost' = TRUE /\ rows' \in [User -> Row]

Spec == Init /\ [][Next]_vars

-----------------------------------------------------------------------------

\* campaignService.ts:152,180: there is always exactly one DM, from the creation of the campaign on.
OneDM == \A u \in User : rows[u].role # "none" => \E d \in User : DM = {d}

\* types and 0001_init.sql:79: a DM has no active character and a player no parked one; who is not a
\* member has neither.
RolesAndCharacters ==
  \A u \in User : /\ rows[u].role # "player" => rows[u].active = NoCharacter
                  /\ rows[u].role # "dm" => rows[u].parked = NoCharacter

\* The character of a member, active or parked.
Played(m) == IF m.role = "dm" THEN m.parked ELSE m.active

\* A change of roles takes nobody's character.
CharacterKept ==
  [][~lost' => \A u \in User :
       {rows[u].role, rows'[u].role} = {"dm", "player"} => Played(rows'[u]) = Played(rows[u])]_vars

=============================================================================
