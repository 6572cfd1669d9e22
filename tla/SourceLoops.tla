---------------------------- MODULE SourceLoops ----------------------------
(***************************************************************************)
(* The three loops behind the permission sources, run one iteration at a   *)
(* time over the rows a query returned:                                    *)
(*   "resource"  _match_regex_permission, first matching row;              *)
(*   "workspace" _match_workspace_regex_permission, best row of the first  *)
(*               matching priority tier;                                   *)
(*   "group"     the fold over the rows of the user's groups.              *)
(* Regex rows come ordered by priority, rows of equal priority in the      *)
(* database's order; group rows come ordered by group id.                  *)
(***************************************************************************)
EXTENDS PermissionResolution

CONSTANTS RowPool,   \* the rows a table may hold
          MaxRows,   \* the most rows a query returns
          target     \* the name that is looked up

ASSUME LoopAssumption == /\ RowPool \subseteq RegexRow /\ MaxRows \in Nat /\ target \in Target
                         /\ Nil \notin Int

VARIABLES loop, regexes, position, best_perm, best_priority, done

loopVars == <<loop, regexes, position, best_perm, best_priority, done>>

(* ORDER BY priority. *)
Ordered(rows) == \A j, k \in DOMAIN rows : j < k => rows[j].priority <= rows[k].priority

LoopInit ==
  /\ loop \in {"resource", "workspace", "group"}
  /\ \E n \in 0 .. MaxRows : regexes \in [1 .. n -> RowPool]
  /\ \A j, k \in DOMAIN regexes : j # k => regexes[j] # regexes[k]
  /\ loop # "group" => Ordered(regexes)
  /\ position = 1
  /\ best_perm = Nil
  /\ best_priority = Nil
  /\ done = FALSE

More == ~done /\ position <= Len(regexes)
Matches(r) == target \in r.matches

Finish == done' = TRUE /\ UNCHANGED <<loop, regexes, position, best_perm, best_priority>>

Continue == position' = position + 1 /\ UNCHANGED <<loop, regexes, done>>

ResourceIteration ==
  /\ loop = "resource" /\ More
  /\ IF Matches(regexes[position])
     THEN /\ best_perm' = regexes[position].permission
          /\ done' = TRUE
          /\ UNCHANGED <<loop, regexes, position, best_priority>>
     ELSE Continue /\ UNCHANGED <<best_perm, best_priority>>

(* Without the stop at the end of the tier. *)
WorkspaceIterationNoBreak ==
  /\ loop = "workspace" /\ More
  /\ Continue
  /\ IF ~Matches(regexes[position]) THEN UNCHANGED <<best_perm, best_priority>>
     ELSE IF best_perm = Nil
     THEN best_perm' = regexes[position].permission /\ best_priority' = regexes[position].priority
     ELSE /\ best_perm' = IF priority[regexes[position].permission] > priority[best_perm]
                          THEN regexes[position].permission ELSE best_perm
          /\ UNCHANGED best_priority

WorkspaceIteration ==
  /\ loop = "workspace" /\ More
  /\ IF best_priority # Nil /\ regexes[position].priority > best_priority
     THEN Finish
     ELSE /\ Continue
          /\ IF ~Matches(regexes[position]) THEN UNCHANGED <<best_perm, best_priority>>
             ELSE IF best_perm = Nil
             THEN best_perm' = regexes[position].permission /\ best_priority' = regexes[position].priority
             ELSE /\ best_perm' = IF priority[regexes[position].permission] > priority[best_perm]
                                  THEN regexes[position].permission ELSE best_perm
                  /\ UNCHANGED best_priority

(* Every row of this query is about the target and a group of the user. *)
GroupIteration ==
  /\ loop = "group" /\ More
  /\ Continue
  /\ best_perm' = IF best_perm = Nil \/ compare_permissions(best_perm, regexes[position].permission)
                  THEN regexes[position].permission ELSE best_perm
  /\ UNCHANGED best_priority

EndOfRows == ~done /\ position > Len(regexes) /\ Finish

LoopNext == ResourceIteration \/ WorkspaceIteration \/ GroupIteration \/ EndOfRows

LoopSpec == LoopInit /\ [][LoopNext]_loopVars

-----------------------------------------------------------------------------
AllRows == {regexes[k] : k \in DOMAIN regexes}
Tier == FirstTier(AllRows, target)
Perms(rows) == {r.permission : r \in rows}

(* Said by what a permission allows, not by its priority number: a denial  *)
(* among the rows blocks access (docs/permissions.md:18), and without one  *)
(* the permission counts that allows all that the others allow (:66, D-08  *)
(* of workspace_cache.py:156, which do not except denials).                *)
Prevails(p, perms) ==
  IF perms = {} THEN p = Nil
  ELSE /\ p \in perms
       /\ IF "NO_PERMISSIONS" \in perms THEN p = "NO_PERMISSIONS"
          ELSE \A q \in perms : capabilities[q] \subseteq capabilities[p]

(* utils/permissions.py:133, workspace_cache.py:151, repository/_base.py:  *)
(* 332: whatever order the rows came back in, the resource loop ends with  *)
(* a row of the first matching tier, the workspace loop with the           *)
(* permission that prevails in that tier, the group loop with the one that *)
(* prevails among all rows; and the workspace loop's value is the one      *)
(* PermissionResolution gives.                                             *)
LoopsMeetDefinition ==
  done =>
    CASE loop = "resource" -> IF Tier = {} THEN best_perm = Nil ELSE best_perm \in Perms(Tier)
      [] loop = "workspace" -> /\ Prevails(best_perm, Perms(Tier))
                               /\ best_perm = match_workspace_regex_permission(AllRows, target)
      [] loop = "group" -> Prevails(best_perm, Perms(AllRows))

=============================================================================
