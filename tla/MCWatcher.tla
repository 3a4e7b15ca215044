----------------------------- MODULE MCWatcher -----------------------------
(***************************************************************************)
(* Watcher in four scenarios, each with directories of its own:            *)
(*   change   a folder with a series in it, scanned on request             *)
(*   folders  two folders of one root, added and removed, with a command   *)
(*            line and a restart                                           *)
(*   share    two folders with one channel of signals, whose roots change, *)
(*            come late or go, and a pass that fails                       *)
(*   return   a folder with a series in it, which both go and come back    *)
(* In the last two, under fairness, the catalog is shown to implement      *)
(* Follower.                                                               *)
(***************************************************************************)
EXTENDS Watcher

CONSTANTS f1, f2, f3, f4, f5, root, series, shared, left, inner, right

MCRoot == [f \in FolderIds |-> CASE f = f1 -> root [] f \in {f2, f3} -> shared
                                 [] f = f4 -> left [] f = f5 -> right]
MCParent == [d \in Dirs |-> CASE d = series -> root [] d = inner -> left [] OTHER -> d]

ASSUME WatcherAssumption

Changing == {"scan"}
Managed == {"create", "delete", "command"}
Sharing == {}
Returning == {"recreate"}
Is(s) == happens = s
Follows == Is(Sharing) \/ Is(Returning)

OwnFolders == CASE Is(Changing) -> {f1} [] Is(Managed) -> {f2, f3} [] Is(Sharing) -> {f4, f5} [] OTHER -> {f4}
OwnDirs == UNION {Tree(f) : f \in OwnFolders} \ (IF Is(Sharing) THEN {inner} ELSE {})

(* What a scenario may come to: how often each directory changes.          *)
Within ==
  /\ born \subseteq OwnFolders /\ exists \subseteq OwnDirs
  /\ restarts > 0 => Is(Managed)
  /\ failures > 0 => Is(Sharing)
  /\ CASE Is(Managed) -> \A d \in Dirs : version[d] <= 1
       [] Is(Returning) -> version[left] <= 3 /\ version[left] + version[inner] <= 5
       [] OTHER -> \A d \in Dirs : version[d] <= 2

MCInit == WatcherInit /\ happens \in {Changing, Managed, Sharing, Returning} /\ Within
MCNext == WatcherNext /\ Within'

(* FairWatcher, in the scenarios that follow.                              *)
MCSpec ==
  /\ MCInit /\ [][MCNext]_watcherVars
  /\ WF_watcherVars(Follows /\ Loop /\ Within') /\ SF_watcherVars(Follows /\ Lock("loop"))

(* Of each directory the catalog shows a version that was there, never an  *)
(* older one than before, and in the end the last one if the root is there *)
(* to be read, whatever was dropped, deleted, unwatched or failed          *)
(* (watch.go:134-148).                                                     *)
Followed(f) == Follows /\ f \in folders
Shown(f, d) == IF Followed(f) THEN shown[f][d] ELSE 0
Latest(f, d) == IF Followed(f) THEN version[d] ELSE 0
FirstFolder == INSTANCE Follower WITH
  source <- Latest(f4, left), copy <- Shown(f4, left), reached <- left \in exists
Inside == INSTANCE Follower WITH
  source <- Latest(f4, inner), copy <- Shown(f4, inner), reached <- left \in exists
SecondFolder == INSTANCE Follower WITH
  source <- Latest(f5, right), copy <- Shown(f5, right), reached <- right \in exists
CatalogFollowsDisk == FirstFolder!Spec /\ Inside!Spec /\ SecondFolder!Spec
=============================================================================
