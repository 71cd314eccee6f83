-------------------------------- MODULE Access --------------------------------
(***************************************************************************)
(* The two ways to a handler of the API that is not public: with the bearer *)
(* token of a user session, or with the token issued through a portal link. *)
(* They share no row, so that a behaviour takes one of them.               *)
(***************************************************************************)
EXTENDS BearerAccess, PortalAccess

VARIABLE door   \* "bearer" or "portal"

allVars == <<door, bearerVars, linkVars, accessVars>>

\* What the other door could begin with makes no difference.
AccessInit ==
    /\ door \in {"bearer", "portal"}
    /\ BearerInit /\ PortalInit
    /\ door = "bearer" => bound = CHOOSE b \in Binding : TRUE
    /\ door = "portal" =>
          /\ user.role = CHOOSE role \in Memberships : Joined(role) # {}
          /\ ~user.verified
          /\ active = CHOOSE w \in Workspace : w \in Joined(user.role)

AccessNext ==
    \/ door = "bearer" /\ BearerNext /\ UNCHANGED <<door, linkVars, accessVars>>
    \/ door = "portal" /\ PortalNext /\ UNCHANGED <<door, bearerVars>>

AccessSpec == AccessInit /\ [][AccessNext]_allVars

\* Whoever gets as far as a handler is entitled to it, by either door.
HandlersRunForTheEntitled == BearerIsEntitled /\ GuestIsEntitled
=============================================================================
