----------------------------- MODULE MCAccounts -----------------------------
(* Traffics, each with the requests that touch the same columns: the       *)
(* administration of two accounts; the lockout of one, by guesses that     *)
(* come one after the other or together; and the receiver that bookings,   *)
(* registrations and links bring in.                                       *)
EXTENDS Accounts, FiniteSets, TLC

CONSTANTS Other, Traffics

ASSUME TrafficsAssumption ==
  Traffics \subseteq {"admin", "guesses in turn", "guesses together", "bookings"}

VARIABLE traffic

MCInit == AccountsInit /\ traffic \in Traffics

(* Bound: here an account hands in its papers with its registration, and   *)
(* neither they nor the confirmation of its address change any more: only  *)
(* roles, blocks, removals and saves of something else.                    *)
OnlyRolesChange ==
  \A h \in Handlers :
    work'[h].stage \in {"save", "insert"} =>
      LET root == work'[h].user = SuperAdmin IN
      work'[h].copy.papers = ~root /\ work'[h].copy.verified = root

Administration(h) ==
  /\ \E u \in Users :
       \/ createUser(h, u) \/ OwnRequest(h, u)
       \/ \E actor \in Users : Administer(h, u, actor)
  /\ OnlyRolesChange

Guessing(h) ==
  \/ Guess(h, SuperAdmin) \/ login(h, SuperAdmin)
  \/ updateProfile(h, SuperAdmin) \/ resetPassword(h, SuperAdmin)

OneAtATime == Cardinality({h \in Handlers : work'[h] # Idle}) <= 1

Booking(h) ==
  \/ createUser(h, Other) \/ findOrCreateReceiver(h, Other) \/ Linked(h, Other)
  \/ removeAccount(h, Other, SuperAdmin)

MCNext ==
  /\ \/ \E h \in Handlers :
          \/ Proceed(h) \/ Stop(h)
          \/ traffic = "admin" /\ Administration(h)
          \/ traffic = "guesses together" /\ Guessing(h)
          \/ traffic = "guesses in turn" /\ Guessing(h) /\ OneAtATime
          \/ traffic = "bookings" /\ Booking(h)
     \/ \E u \in Users : LockEnds(u)
  /\ UNCHANGED traffic

MCSpec == MCInit /\ [][MCNext]_<<accountVars, traffic>>

MCHandlers == Permutations(Handlers)

=============================================================================
