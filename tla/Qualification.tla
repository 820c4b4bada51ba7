---------------------------- MODULE Qualification ----------------------------
(***************************************************************************)
(* The qualification of models from both ends: the server's catalogue,     *)
(* which ModelCatalog describes and this module extends, and the Providers *)
(* page with the loop that asks for one verification after the other.      *)
(* ModelCatalog lets any requests come, those of the page among them, and  *)
(* ProvidersPage has the server it needs in provider; so one end moves.    *)
(***************************************************************************)
EXTENDS ModelCatalog

CONSTANTS Catalogued, MaxMounts, MaxLost, MaxFlows   \* ProvidersPage

ASSUME PageAssumption == MaxMounts \in Nat \ {0} /\ {MaxLost, MaxFlows} \subseteq Nat

VARIABLES
  end,   \* the end that moves
  provider, pvPage, pvFlow, pvRefs, pvStops, pvLost, pvFlows, pvSince

Page == INSTANCE ProvidersPage

server == vars
page   == <<provider, pvPage, pvFlow, pvRefs, pvStops, pvLost, pvFlows, pvSince>>
ends   == <<end, server, page>>

QualificationInit ==
  /\ end \in {"server", "page"}
  /\ Init /\ Page!ProvidersInit
  /\ provider.exists => end = "page"

ServerMoves == end = "server" /\ Next /\ UNCHANGED <<end, page>>
PageMoves   == end = "page" /\ Page!ProvidersNext /\ UNCHANGED <<end, server>>

QualificationNext == ServerMoves \/ PageMoves
QualificationSpec == QualificationInit /\ [][QualificationNext]_ends

-----------------------------------------------------------------------------

\* At most the verification under way follows a Stop, and busy and lock are
\* held exactly by running coroutines, over a page that is left and visited
\* again while they run; each is explained in ProvidersPage.
StopIsHeard ==
  end = "page" => Page!ProvidersTypeOK /\ Page!StopIsHeard /\ Page!BusyMatchesWork
=============================================================================
