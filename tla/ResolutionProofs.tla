-------------------------- MODULE ResolutionProofs --------------------------
(***************************************************************************)
(* Lemmas about PermissionResolution, for any database, order of sources   *)
(* and default: the types of what lookups return, where the walk stops, on *)
(* which row a decision rests, and which rows it does not depend on.       *)
(***************************************************************************)
EXTENDS PermissionResolution, WellFoundedInduction, TLAPS

PermOrNil == ALL_PERMISSIONS \cup {Nil}

(* A non-empty set of permissions has one of the largest priority. *)
LEMMA HighestExists ==
  ASSUME NEW S \in SUBSET ALL_PERMISSIONS, S # {}
  PROVE  \E p \in S : \A q \in S : compare_permissions(q, p)
<1> DEFINE Top(p) == p \in S /\ \A q \in S : compare_permissions(q, p)
<1>1. CASE "NO_PERMISSIONS" \in S
  BY <1>1 DEF compare_permissions, priority, ALL_PERMISSIONS
<1>2. CASE "NO_PERMISSIONS" \notin S /\ "MANAGE" \in S
  BY <1>2 DEF compare_permissions, priority, ALL_PERMISSIONS
<1>3. CASE S \subseteq {"READ", "USE", "EDIT"} /\ "EDIT" \in S
  BY <1>3 DEF compare_permissions, priority, ALL_PERMISSIONS
<1>4. CASE S \subseteq {"READ", "USE"} /\ "USE" \in S
  BY <1>4 DEF compare_permissions, priority, ALL_PERMISSIONS
<1>5. CASE S = {"READ"}
  BY <1>5 DEF compare_permissions, priority, ALL_PERMISSIONS
<1>6. QED
  BY <1>1, <1>2, <1>3, <1>4, <1>5 DEF ALL_PERMISSIONS

(* A regex lookup returns a permission or nothing. *)
LEMMA MatchRegexType ==
  ASSUME NEW rows \in SUBSET RegexRow, NEW t \in Target
  PROVE  MatchRegex(rows, t) \in PermOrNil
<1>1. FirstTier(rows, t) \subseteq rows
  BY DEF FirstTier
<1>2. match_regex_permission(rows, t) \in PermOrNil
  BY <1>1 DEF match_regex_permission, PermOrNil, RegexRow
<1>3. match_workspace_regex_permission(rows, t) \in PermOrNil
  <2> DEFINE perms == {r.permission : r \in FirstTier(rows, t)}
  <2>1. perms \in SUBSET ALL_PERMISSIONS
    BY <1>1 DEF RegexRow
  <2>2. CASE perms = {}
    BY <2>2 DEF match_workspace_regex_permission, PermOrNil
  <2>3. CASE perms # {}
    <3>1. \E p \in perms : \A q \in perms : compare_permissions(q, p)
      BY <2>1, <2>3, HighestExists
    <3>2. (CHOOSE p \in perms : \A q \in perms : compare_permissions(q, p)) \in perms
      BY <3>1
    <3>3. QED
      BY <2>1, <2>3, <3>2 DEF match_workspace_regex_permission, PermOrNil
  <2>4. QED
    BY <2>2, <2>3
<1>4. QED
  BY <1>2, <1>3 DEF MatchRegex

(* Every source answers a permission or nothing. *)
LEMMA SourceLookupType ==
  ASSUME NEW d \in Database, NEW s, NEW u \in User, NEW t \in Target
  PROVE  SourceLookup(d, s, u, t) \in PermOrNil
<1>1. d.direct[<<u, t>>] \in PermOrNil
  BY DEF Database, Holder, PermOrNil
<1>2. get_group_permission_for_user_resource(d, u, t) \in PermOrNil
  <2> DEFINE cand == {d.direct[<<g, t>>] : g \in get_groups_ids_for_user(d, u)} \ {Nil}
  <2>1. cand \in SUBSET ALL_PERMISSIONS
    BY DEF Database, Holder, get_groups_ids_for_user
  <2>2. CASE cand = {}
    BY <2>2 DEF get_group_permission_for_user_resource, PermOrNil
  <2>3. CASE cand # {}
    <3>1. \E p \in cand : \A q \in cand : compare_permissions(q, p)
      BY <2>1, <2>3, HighestExists
    <3>2. (CHOOSE p \in cand : \A q \in cand : compare_permissions(q, p)) \in cand
      BY <3>1
    <3>3. QED
      BY <2>1, <2>3, <3>2 DEF get_group_permission_for_user_resource, PermOrNil
  <2>4. QED
    BY <2>2, <2>3
<1>3. \A rows \in SUBSET RegexRow : MatchRegex(rows, t) \in PermOrNil
  BY MatchRegexType
<1>4. /\ list_regex_for_user(d, u) \in SUBSET RegexRow
      /\ \A gs : list_permissions_for_groups_ids(d, gs) \in SUBSET RegexRow
  BY DEF Database, list_regex_for_user, list_permissions_for_groups_ids
<1>5. QED
  BY <1>1, <1>2, <1>3, <1>4 DEF SourceLookup, PermOrNil

(* The walk over the sources stops at the first one that answers. *)
LEMMA WalkStops ==
  ASSUME NEW d, NEW u, NEW t, NEW i \in DOMAIN SourceOrder,
         SourceLookup(d, SourceOrder[i], u, t) # Nil,
         \A j \in DOMAIN SourceOrder : j < i => SourceLookup(d, SourceOrder[j], u, t) = Nil
  PROVE  Answering(d, u, t) # {} /\ FirstAnswering(d, u, t) = i
<1>1. DOMAIN SourceOrder \subseteq Int
  BY OrderAssumption
<1>2. i \in Answering(d, u, t) /\ \A j \in Answering(d, u, t) : i <= j
  BY <1>1 DEF Answering
<1>3. \A k \in Answering(d, u, t) : (\A j \in Answering(d, u, t) : k <= j) => k = i
  BY <1>1, <1>2 DEF Answering
<1>4. FirstAnswering(d, u, t) = i
  BY <1>2, <1>3 DEF FirstAnswering
<1>5. QED
  BY <1>2, <1>4


-----------------------------------------------------------------------------
(* A permission that a lookup on t returns is that of a row on t. *)
HasRow(d, t, p) ==
  \/ \E h \in Holder : d.direct[<<h, t>>] = p
  \/ \E r \in d.regex : t \in r.matches /\ r.permission = p

LEMMA RegexHasRow ==
  ASSUME NEW rows \in SUBSET RegexRow, NEW t \in Target, MatchRegex(rows, t) # Nil
  PROVE  \E r \in rows : t \in r.matches /\ r.permission = MatchRegex(rows, t)
<1> DEFINE tier == FirstTier(rows, t)
           perms == {r.permission : r \in tier}
<1>1. tier \subseteq rows /\ \A r \in tier : t \in r.matches
  BY DEF FirstTier
<1>2. perms \in SUBSET ALL_PERMISSIONS
  BY <1>1 DEF RegexRow
<1>3. MatchRegex(rows, t) \in perms
  <2>1. CASE t \in Workspace
    <3>1. MatchRegex(rows, t) = IF perms = {} THEN Nil ELSE CHOOSE p \in perms : \A q \in perms : compare_permissions(q, p)
      BY <2>1 DEF MatchRegex, match_workspace_regex_permission
    <3> HIDE DEF perms
    <3>2. perms # {}
      BY <3>1
    <3>3. \E p \in perms : \A q \in perms : compare_permissions(q, p)
      BY <1>2, <3>2, HighestExists
    <3>4. (CHOOSE p \in perms : \A q \in perms : compare_permissions(q, p)) \in perms
      BY <3>3
    <3>5. QED
      BY <3>1, <3>2, <3>4
  <2>2. CASE t \notin Workspace
    <3>1. MatchRegex(rows, t) = IF tier = {} THEN Nil ELSE (CHOOSE r \in tier : TRUE).permission
      BY <2>2 DEF MatchRegex, match_regex_permission
    <3>2. tier # {}
      BY <3>1
    <3>3. (CHOOSE r \in tier : TRUE) \in tier
      BY <3>2
    <3>4. QED
      BY <3>1, <3>2, <3>3
  <2>3. QED
    BY <2>1, <2>2
<1>4. QED
  BY <1>1, <1>3

LEMMA SourceHasRow ==
  ASSUME NEW d \in Database, NEW s, NEW u \in User, NEW t \in Target, SourceLookup(d, s, u, t) # Nil
  PROVE  HasRow(d, t, SourceLookup(d, s, u, t))
<1> DEFINE p == SourceLookup(d, s, u, t)
<1>1. CASE s = "user"
  BY <1>1 DEF SourceLookup, HasRow, Holder
<1>2. CASE s = "group"
  <2> DEFINE cand == {d.direct[<<g, t>>] : g \in get_groups_ids_for_user(d, u)} \ {Nil}
  <2>1. cand \in SUBSET ALL_PERMISSIONS
    BY DEF Database, Holder, get_groups_ids_for_user
  <2>2. p = IF cand = {} THEN Nil ELSE CHOOSE x \in cand : \A q \in cand : compare_permissions(q, x)
    BY <1>2 DEF SourceLookup, get_group_permission_for_user_resource
  <2>3. \A x \in cand : \E g \in Group : d.direct[<<g, t>>] = x
    BY DEF get_groups_ids_for_user
  <2> HIDE DEF cand
  <2>4. cand # {}
    BY <2>2
  <2>5. \E x \in cand : \A q \in cand : compare_permissions(q, x)
    BY <2>1, <2>4, HighestExists
  <2>6. (CHOOSE x \in cand : \A q \in cand : compare_permissions(q, x)) \in cand
    BY <2>5
  <2>7. p \in cand
    BY <2>2, <2>4, <2>6
  <2> HIDE DEF p
  <2>8. QED
    BY <2>3, <2>7 DEF HasRow, Holder, p
<1>3. CASE s = "regex"
  <2>1. list_regex_for_user(d, u) \in SUBSET RegexRow /\ list_regex_for_user(d, u) \subseteq d.regex
    BY DEF Database, list_regex_for_user
  <2>2. p = MatchRegex(list_regex_for_user(d, u), t)
    BY <1>3 DEF SourceLookup
  <2>3. \E r \in list_regex_for_user(d, u) : t \in r.matches /\ r.permission = p
    BY <2>1, <2>2, RegexHasRow
  <2>4. QED
    BY <2>1, <2>3 DEF HasRow
<1>4. CASE s = "group-regex"
  <2> DEFINE rows == list_permissions_for_groups_ids(d, get_groups_ids_for_user(d, u))
  <2>1. rows \in SUBSET RegexRow /\ rows \subseteq d.regex
    BY DEF Database, list_permissions_for_groups_ids
  <2>2. p = MatchRegex(rows, t)
    BY <1>4 DEF SourceLookup
  <2>3. \E r \in rows : t \in r.matches /\ r.permission = p
    BY <2>1, <2>2, RegexHasRow
  <2>4. QED
    BY <2>1, <2>3 DEF HasRow
<1>5. CASE s \notin {"user", "group", "regex", "group-regex"}
  BY <1>5 DEF SourceLookup
<1>6. QED
  BY <1>1, <1>2, <1>3, <1>4, <1>5

(* A non-empty set of numbers has a least one. *)
LEMMA LeastExists ==
  ASSUME NEW A \in SUBSET Nat, A # {}
  PROVE  \E i \in A : \A j \in A : i <= j
<1> DEFINE R == {ss \in Nat \X Nat : ss[1] < ss[2]}
<1>1. IsWellFoundedOn(R, Nat)
  BY NatLessThanWellFounded DEF OpToRel
<1> HIDE DEF R
<1>2. PICK i \in A : \A j \in A : ~(<<j, i>> \in R)
  BY <1>1, WFMin
<1>3. \A j \in A : <<j, i>> \in Nat \X Nat /\ (j < i => <<j, i>> \in R)
  BY DEF R
<1>4. ASSUME NEW j \in A PROVE i <= j
  <2>1. i \in Nat /\ j \in Nat /\ ~(j < i)
    BY <1>2, <1>3
  <2>2. QED
    BY <2>1
<1>5. QED
  BY <1>4

(* The first source that answers is one of them. *)
LEMMA FirstAnswers ==
  ASSUME NEW d, NEW u, NEW t, Answering(d, u, t) # {}
  PROVE  FirstAnswering(d, u, t) \in Answering(d, u, t)
<1>1. Answering(d, u, t) \in SUBSET Nat
  BY OrderAssumption DEF Answering
<1>2. \E i \in Answering(d, u, t) : \A j \in Answering(d, u, t) : i <= j
  BY <1>1, LeastExists
<1>3. QED
  BY <1>2 DEF FirstAnswering

(* What the walk finds, for a resource or for a workspace, is a row's      *)
(* permission.                                                             *)
LEMMA WalkHasRow ==
  ASSUME NEW d \in Database, NEW u \in User, NEW t \in Target, Answering(d, u, t) # {}
  PROVE  LET p == SourceLookup(d, SourceOrder[FirstAnswering(d, u, t)], u, t)
         IN  p \in ALL_PERMISSIONS /\ HasRow(d, t, p)
<1> DEFINE s == SourceOrder[FirstAnswering(d, u, t)]
<1>1. SourceLookup(d, s, u, t) # Nil
  BY FirstAnswers DEF Answering
<1>2. SourceLookup(d, s, u, t) \in PermOrNil /\ HasRow(d, t, SourceLookup(d, s, u, t))
  BY <1>1, SourceLookupType, SourceHasRow
<1>3. QED
  BY <1>1, <1>2 DEF PermOrNil

LEMMA WorkspaceHasRow ==
  ASSUME NEW d \in Database, NEW u \in User, NEW w \in Workspace
  PROVE  LET p == WorkspaceResult(lookup_workspace_permission(d, u, w)).permission
         IN  p \in ALL_PERMISSIONS /\ (p = "NO_PERMISSIONS" \/ HasRow(d, w, p))
<1> DEFINE found == lookup_workspace_permission(d, u, w)
<1>1. CASE Answering(d, u, w) = {}
  <2>1. found = Nil
    BY <1>1 DEF lookup_workspace_permission
  <2>2. WorkspaceResult(found).permission = "NO_PERMISSIONS"
    BY <2>1 DEF WorkspaceResult
  <2>3. QED
    BY <2>2 DEF ALL_PERMISSIONS
<1>2. CASE Answering(d, u, w) # {}
  <2>1. found = SourceLookup(d, SourceOrder[FirstAnswering(d, u, w)], u, w)
    BY <1>2 DEF lookup_workspace_permission
  <2>2. found \in ALL_PERMISSIONS /\ HasRow(d, w, found)
    BY <1>2, <2>1, WalkHasRow DEF Target
  <2>3. WorkspaceResult(found).permission = found
    BY <2>2, NilAssumption DEF WorkspaceResult
  <2>4. QED
    BY <2>2, <2>3
<1>3. QED
  BY <1>1, <1>2

(* A decision on a resource is a row's permission, on the resource or on   *)
(* the request's workspace, or the default.                                *)
LEMMA DecisionHasRow ==
  ASSUME NEW d \in Database, NEW u \in User, NEW r \in Resource, NEW x \in Workspace \cup {NoWorkspace}
  PROVE  LET p == resolve_permission(d, u, r, x).permission
         IN  /\ p \in ALL_PERMISSIONS
             /\ \/ p = "NO_PERMISSIONS" \/ p = DefaultPermission
                \/ HasRow(d, r, p) \/ (x \in Workspace /\ HasRow(d, x, p))
<1> DEFINE found == get_permission_from_store_or_default(d, u, r)
           result == resolve_permission(d, u, r, x)
<1>1. result = IF found.kind # "fallback" \/ x = NoWorkspace THEN found
               ELSE WorkspaceResult(lookup_workspace_permission(d, u, x))
  BY DEF resolve_permission, apply_workspace_fallback
<1>2. found.permission \in ALL_PERMISSIONS /\ (found.permission = DefaultPermission \/ HasRow(d, r, found.permission))
  <2>1. CASE Answering(d, u, r) = {}
    BY <2>1, DefaultAssumption DEF get_permission_from_store_or_default
  <2>2. CASE Answering(d, u, r) # {}
    <3>1. found.permission = SourceLookup(d, SourceOrder[FirstAnswering(d, u, r)], u, r)
      BY <2>2 DEF get_permission_from_store_or_default
    <3>2. QED
      BY <2>2, <3>1, WalkHasRow DEF Target
  <2>3. QED
    BY <2>1, <2>2
<1>3. CASE found.kind # "fallback" \/ x = NoWorkspace
  BY <1>1, <1>2, <1>3
<1>4. CASE ~(found.kind # "fallback" \/ x = NoWorkspace)
  <2>1. x \in Workspace /\ result = WorkspaceResult(lookup_workspace_permission(d, u, x))
    BY <1>1, <1>4
  <2>2. QED
    BY <2>1, WorkspaceHasRow
<1>5. QED
  BY <1>3, <1>4

-----------------------------------------------------------------------------
(* A lookup of u on t depends on u's groups and on the rows on t that are  *)
(* u's or one of those groups'.                                            *)
Serves(d, u) == {u} \cup get_groups_ids_for_user(d, u)
Matching(d, h, t) == {r \in d.regex : r.holder = h /\ t \in r.matches}
SameRows(d, e, u, t) ==
  /\ get_groups_ids_for_user(d, u) = get_groups_ids_for_user(e, u)
  /\ \A h \in Serves(d, u) : d.direct[<<h, t>>] = e.direct[<<h, t>>] /\ Matching(d, h, t) = Matching(e, h, t)

LEMMA SameTier ==
  ASSUME NEW S, NEW T, NEW t, {r \in S : t \in r.matches} = {r \in T : t \in r.matches}
  PROVE  MatchRegex(S, t) = MatchRegex(T, t)
<1>1. FirstTier(S, t) = FirstTier(T, t)
  BY DEF FirstTier
<1>2. QED
  BY <1>1 DEF MatchRegex, match_regex_permission, match_workspace_regex_permission

LEMMA SameLookups ==
  ASSUME NEW d, NEW e, NEW u, NEW t, SameRows(d, e, u, t), NEW s
  PROVE  SourceLookup(d, s, u, t) = SourceLookup(e, s, u, t)
<1> DEFINE gs == get_groups_ids_for_user(d, u)
<1>1. get_groups_ids_for_user(e, u) = gs
  BY DEF SameRows
<1>2. d.direct[<<u, t>>] = e.direct[<<u, t>>] /\ \A g \in gs : d.direct[<<g, t>>] = e.direct[<<g, t>>]
  BY DEF SameRows, Serves
<1>3. /\ \A r : r.holder = u /\ t \in r.matches => (r \in d.regex <=> r \in e.regex)
      /\ \A r : r.holder \in gs /\ t \in r.matches => (r \in d.regex <=> r \in e.regex)
  BY DEF SameRows, Serves, Matching
<1>4. MatchRegex(list_regex_for_user(d, u), t) = MatchRegex(list_regex_for_user(e, u), t)
  <2>1. {r \in list_regex_for_user(d, u) : t \in r.matches} = {r \in list_regex_for_user(e, u) : t \in r.matches}
    BY <1>3 DEF list_regex_for_user
  <2>2. QED
    BY <2>1, SameTier
<1>5. MatchRegex(list_permissions_for_groups_ids(d, gs), t) = MatchRegex(list_permissions_for_groups_ids(e, gs), t)
  <2>1. {r \in list_permissions_for_groups_ids(d, gs) : t \in r.matches}
          = {r \in list_permissions_for_groups_ids(e, gs) : t \in r.matches}
    BY <1>3 DEF list_permissions_for_groups_ids
  <2>2. QED
    BY <2>1, SameTier
<1>6. get_group_permission_for_user_resource(d, u, t) = get_group_permission_for_user_resource(e, u, t)
  <2> DEFINE cd == {d.direct[<<g, t>>] : g \in gs} \ {Nil}
             ce == {e.direct[<<g, t>>] : g \in gs} \ {Nil}
             Top(c) == IF c = {} THEN Nil ELSE CHOOSE p \in c : \A q \in c : compare_permissions(q, p)
  <2>1. cd = ce
    BY <1>2
  <2>2. get_group_permission_for_user_resource(d, u, t) = Top(cd)
    BY DEF get_group_permission_for_user_resource
  <2>3. get_group_permission_for_user_resource(e, u, t) = Top(ce)
    BY <1>1 DEF get_group_permission_for_user_resource
  <2> HIDE DEF cd, ce, Top
  <2>4. QED
    BY <2>1, <2>2, <2>3
<1>7. QED
  BY <1>1, <1>2, <1>4, <1>5, <1>6 DEF SourceLookup

LEMMA SameWalk ==
  ASSUME NEW d, NEW e, NEW u, NEW t, SameRows(d, e, u, t)
  PROVE  /\ lookup_workspace_permission(d, u, t) = lookup_workspace_permission(e, u, t)
         /\ get_permission_from_store_or_default(d, u, t) = get_permission_from_store_or_default(e, u, t)
<1>1. \A s : SourceLookup(d, s, u, t) = SourceLookup(e, s, u, t)
  BY SameLookups
<1>2. Answering(d, u, t) = Answering(e, u, t)
  BY <1>1 DEF Answering
<1>3. FirstAnswering(d, u, t) = FirstAnswering(e, u, t)
  BY <1>2 DEF FirstAnswering
<1>4. QED
  BY <1>1, <1>2, <1>3 DEF lookup_workspace_permission, get_permission_from_store_or_default

LEMMA SameDecision ==
  ASSUME NEW d, NEW e, NEW u, NEW t, NEW x, SameRows(d, e, u, t),
         x = NoWorkspace \/ SameRows(d, e, u, x)
  PROVE  resolve_permission(d, u, t, x) = resolve_permission(e, u, t, x)
<1>1. get_permission_from_store_or_default(d, u, t) = get_permission_from_store_or_default(e, u, t)
  BY SameWalk
<1>2. x = NoWorkspace \/ lookup_workspace_permission(d, u, x) = lookup_workspace_permission(e, u, x)
  BY SameWalk
<1>3. QED
  BY <1>1, <1>2 DEF resolve_permission, apply_workspace_fallback
=============================================================================
