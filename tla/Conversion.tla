----------------------------- MODULE Conversion -----------------------------
(* What a migration makes of the legacy state: the rows that name providers,*)
(* the homes in which their command lines keep sessions, and the paths of   *)
(* workspaces.  A legacy state s is one conversation with its workspaces; a *)
(* mapping k is what the operator configured.  A tree is a function from    *)
(* Files to contents, None where there is no such file, and NoHome where    *)
(* there is no directory; the name of a session is the file that holds its  *)
(* history.                                                                 *)
CONSTANTS Roles, Files

None == "none"     \* no file, no session
NoHome == <<>>
Nothing == [f \in Files |-> None]

-----------------------------------------------------------------------------
(* Rows.  The legacy tables name models and families of models; the new     *)
(* ones a provider and the scope in which its sessions can be resumed.      *)

HasSession(s, r) == s.session[r] # None

(* role_settings, from the columns of the conversation *)
SettingsRow(s, k, r) == [identity |-> k.models[s.model[r]], model |-> s.model[r]]

(* agent_sessions, from codex_sessions *)
SessionRow(s, k, r) == [identity |-> k.families[s.family[r]], session |-> s.session[r]]

RowsMapped(s, k) ==
  \A r \in Roles :
    /\ s.model[r] \in DOMAIN k.models
    /\ HasSession(s, r) => s.family[r] \in DOMAIN k.families

FamiliesHaveRunners(k) == DOMAIN k.runners = DOMAIN k.families

-----------------------------------------------------------------------------
(* Homes.  A role had a home of its own, and Codex roles one that they      *)
(* shared until each had imported it.                                       *)

Runner(s, k, r) == k.runners[s.family[r]]

ImportsAgain(s, k, r) == Runner(s, k, r) = "codex" /\ s.shared # NoHome

Imports(s, k, r) == Runner(s, k, r) = "codex" /\ r \notin s.imported /\ s.shared # NoHome

(* Two files of one name with different contents: nobody can tell which one *)
(* the session needs.                                                       *)
Conflict(shared, own) ==
  \E f \in Files : shared[f] # None /\ own[f] # None /\ shared[f] # own[f]

Own(s, r) == IF s.home[r] = NoHome THEN Nothing ELSE s.home[r]

HomePlanned(s, k, r) ==
  /\ s.home[r] # NoHome \/ Imports(s, k, r)
  /\ Imports(s, k, r) => ~Conflict(s.shared, Own(s, r))

(* Directories are merged entry by entry; where both have one the role's is *)
(* kept.                                                                    *)
Overlaid(shared, own) == [f \in Files |-> IF own[f] # None THEN own[f] ELSE shared[f]]

ActiveHome(s, k, r) == IF Imports(s, k, r) THEN Overlaid(s.shared, Own(s, r)) ELSE Own(s, r)

(* The homes of the new layout, by role and by the scope of the session *)
Homes(s, k) ==
  [h \in {<<r, k.families[s.family[r]].scope>> : r \in {q \in Roles : HasSession(s, q)}} |->
     ActiveHome(s, k, h[1])]

-----------------------------------------------------------------------------
(* Workspaces.  A rehearsal runs on a copy of the state while production    *)
(* goes on, so that it needs another place for each external workspace.     *)

External(s) == {w \in DOMAIN s.place : s.kind[w] = "external"}

PlacesMapped(s, k) ==
  /\ "main" \in External(s)
  /\ IF k.mode = "production" THEN DOMAIN k.places = {}
     ELSE /\ DOMAIN k.places = External(s)
          /\ \A w, v \in External(s) : k.places[w] # s.place[v]

PlaceOf(s, k, w) == IF w \in DOMAIN k.places THEN k.places[w] ELSE s.place[w]

AnyState(s, k) == TRUE

(* "converted losslessly", or refused before anything is touched: the index *)
(* and the directories name the same workspaces, the database has the       *)
(* supported format and intact relations, everything is mapped, and homes   *)
(* do not contradict each other.                                            *)
Indexed(s) == s.indexed = DOMAIN s.place
Supported(s) == s.database = "legacy"

Convertible(s, k) ==
  /\ FamiliesHaveRunners(k) /\ Indexed(s) /\ Supported(s)
  /\ RowsMapped(s, k) /\ PlacesMapped(s, k)
  /\ \A r \in Roles : HasSession(s, r) => HomePlanned(s, k, r)

-----------------------------------------------------------------------------
(* What the new service finds: a session is offered to a role whose         *)
(* settings have its scope, and looked for in the role's home of that scope.*)

RoleHome(s, k, r) == <<r, SettingsRow(s, k, r).identity.scope>>

Compatible(s, k, r) ==
  /\ HasSession(s, r)
  /\ SessionRow(s, k, r).identity.scope = SettingsRow(s, k, r).identity.scope

(* The history of a session is what lies in the role's own home and, for a  *)
(* Codex role that has not taken it over yet, in the home they shared.      *)
Places(s, k, r) ==
  {s.home[r]} \cup (IF Runner(s, k, r) = "codex" /\ r \notin s.imported THEN {s.shared} ELSE {})

(* A session that is offered to a role after a conversion of s with k finds *)
(* in the role's home, among the homes made, every file of its history as   *)
(* it was, and nothing that was not there: "converted losslessly", where    *)
(* two files of one name that differ cannot both be.                        *)
HistoryKept(s, k, homes) ==
  /\ RowsMapped(s, k)
  /\ \A r \in Roles : Compatible(s, k, r) =>
       /\ RoleHome(s, k, r) \in DOMAIN homes
       /\ \A f \in Files :
            LET found == homes[RoleHome(s, k, r)][f] IN
              {h[f] : h \in Places(s, k, r) \ {NoHome}} \ {None} = {found} \ {None}
=============================================================================
