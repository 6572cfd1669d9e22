---------------------------- MODULE SearchRefill ----------------------------
(***************************************************************************)
(* Searches whose results are filtered after MLflow computed a page.  The  *)
(* filter removes what the caller may not read and then fetches further    *)
(* pages until the page is full again; the client follows the page token.  *)
(* A page token is an offset into MLflow's result list, which other        *)
(* requests may shift while the handler loops or between two pages.        *)
(*                                                                         *)
(*   kind "offset"  experiments, registered models and model versions;     *)
(*        "logged"  logged models;                                         *)
(*        "all"     the fetch_all_* helpers, which take every page and     *)
(*                  whose callers filter at the end.                       *)
(* could, changed and shifted are history.                                 *)
(***************************************************************************)
EXTENDS Naturals, Sequences

CONSTANTS Item, None, Kinds, Sizes,
          Lists,             \* the result lists the search may start from
          MaxEdits

ASSUME SearchAssumption ==
  /\ None \notin Nat /\ Kinds \subseteq {"offset", "logged", "all"} /\ Sizes \subseteq Nat \ {0}
  /\ Lists \subseteq Seq(Item) /\ MaxEdits \in Nat

VARIABLES kind, max_results,
          catalogue,         \* MLflow's result list
          reads,             \* items the caller's permission lets them read
          reaches,           \* items in workspaces the caller may read
          pc, page, memo, next_page_token,
          token, seen,       \* the client's next token and what it was shown
          could, changed, shifted, edits

server == <<pc, page, memo, next_page_token>>
world == <<catalogue, reads, reaches>>
searchVars == <<kind, max_results, world, server, token, seen, could, changed, shifted, edits>>

-----------------------------------------------------------------------------
Items(s) == {s[j] : j \in DOMAIN s}

(* The entries of s that lie in K, in their order. *)
Kept(s, K) ==
  LET kept[n \in 0 .. Len(s)] ==
        IF n = 0 THEN <<>> ELSE IF s[n] \in K THEN Append(kept[n - 1], s[n]) ELSE kept[n - 1]
  IN  kept[Len(s)]

Take(s, n) == SubSeq(s, 1, IF n < Len(s) THEN n ELSE Len(s))

(* MLflow's stores: one page of results, and the token of the next one. *)
search(offset) == Take(SubSeq(catalogue, offset + 1, Len(catalogue)), max_results)
search_token(offset) == IF offset + max_results < Len(catalogue) THEN offset + max_results ELSE None

(* cached_can_read_*: the first decision about an item holds for the       *)
(* request.                                                                *)
Decide(m, items) == [i \in DOMAIN m \cup items |-> IF i \in DOMAIN m THEN m[i] ELSE i \in reads]

(* can_access_workspace.  Where the workspace is looked up by id, an item  *)
(* deleted meanwhile counts as having none, which anybody may access.      *)
can_access_workspace(i, lookup) == i \in reaches \/ (lookup /\ i \notin Items(catalogue))

WorkspaceOnly(s, m, lookup) == Kept(s, {i \in Items(s) : can_access_workspace(i, lookup)})
Readable(s, m, lookup) == Kept(s, {i \in Items(s) : m[i] /\ can_access_workspace(i, lookup)})

SearchInit ==
  /\ kind \in Kinds /\ max_results \in Sizes
  /\ catalogue \in Lists
  /\ reads \in SUBSET Item /\ reaches \in SUBSET Item
  /\ pc = "idle" /\ page = <<>> /\ memo = <<>> /\ next_page_token = None
  /\ token = 0 /\ seen = <<>>
  /\ could = {} /\ changed = FALSE /\ shifted = FALSE /\ edits = 0

(* The client asks for a page, and MLflow's handler answers. *)
Search ==
  /\ pc = "idle" /\ token # None
  /\ pc' = "filter"
  /\ page' = search(token) /\ next_page_token' = search_token(token)
  /\ memo' = <<>> /\ could' = reads
  /\ UNCHANGED <<kind, max_results, world, token, seen, changed, shifted, edits>>

Loop(p, m, next) ==
  /\ page' = p /\ memo' = m /\ next_page_token' = next /\ pc' = "refill"
  /\ UNCHANGED <<kind, max_results, world, token, seen, could, changed, shifted, edits>>

(* The page MLflow answered with, filtered; the helpers keep it whole. *)
filter_page ==
  /\ pc = "filter"
  /\ IF kind = "all" THEN Loop(page, memo, next_page_token)
     ELSE LET m == Decide(memo, Items(page))
          IN  Loop(Readable(page, m, TRUE), m, next_page_token)

More == pc = "refill" /\ next_page_token # None /\ (kind = "all" \/ Len(page) < max_results)

(* Experiments, models, versions: the batch is cut to what is still        *)
(* missing, and the token moves on by what was taken.                      *)
NoBreak ==
  /\ More /\ kind = "offset"
  /\ LET refetched == Take(search(next_page_token), max_results - Len(page))
         m == Decide(memo, Items(refetched))
     IN  Loop(page \o Readable(refetched, m, FALSE), m, next_page_token + Len(refetched))
WholeBatch ==
  /\ More /\ kind = "offset"
  /\ LET refetched == search(next_page_token)
         m == Decide(memo, Items(refetched))
     IN  IF refetched = <<>> THEN Loop(page, memo, None)
         ELSE Loop(page \o Take(Readable(refetched, m, FALSE), max_results - Len(page)), m,
                   next_page_token + Len(refetched))
refill ==
  /\ More /\ kind = "offset"
  /\ LET refetched == Take(search(next_page_token), max_results - Len(page))
         m == Decide(memo, Items(refetched))
     IN  IF refetched = <<>> THEN Loop(page, memo, None)
         ELSE Loop(page \o Readable(refetched, m, FALSE), m, next_page_token + Len(refetched))

(* Logged models: the batch is walked until the page is full, and the      *)
(* token points behind the last item looked at.                            *)
LoggedOffByOne ==
  /\ More /\ kind = "logged"
  /\ LET batch == search(next_page_token)
         walked(k) == Readable(Take(batch, k), Decide(memo, Items(Take(batch, k))), TRUE)
         stops == {k \in 1 .. Len(batch) : Len(page) + Len(walked(k)) >= max_results}
         end == IF stops = {} THEN Len(batch) ELSE CHOOSE i \in stops : \A j \in stops : i <= j
     IN  Loop(page \o walked(end), Decide(memo, Items(Take(batch, end))),
              IF search_token(next_page_token) = None /\ end = Len(batch) THEN None
              ELSE next_page_token + end - 1)
refill_logged ==
  /\ More /\ kind = "logged"
  /\ LET batch == search(next_page_token)
         walked(k) == Readable(Take(batch, k), Decide(memo, Items(Take(batch, k))), TRUE)
         stops == {k \in 1 .. Len(batch) : Len(page) + Len(walked(k)) >= max_results}
         last == search_token(next_page_token) = None
         end == IF stops = {} THEN Len(batch) ELSE CHOOSE i \in stops : \A j \in stops : i <= j
     IN  Loop(page \o walked(end), Decide(memo, Items(Take(batch, end))),
              CASE last /\ end = Len(batch) -> None
                [] ~last /\ stops = {} -> next_page_token + max_results
                [] OTHER -> next_page_token + end)

(* fetch_all_*: pages are concatenated until MLflow gives no token. *)
fetch_all ==
  /\ More /\ kind = "all"
  /\ Loop(page \o search(next_page_token), memo, search_token(next_page_token))

(* The response; the callers of the helpers filter what was fetched. *)
SendPage ==
  /\ pc = "refill" /\ ~More
  /\ pc' = "idle" /\ token' = next_page_token
  /\ LET shown == IF kind = "all" THEN Kept(page, reads) ELSE page
     IN  seen' = seen \o shown /\ page' = shown
  /\ UNCHANGED <<kind, max_results, world, memo, next_page_token, could, changed, shifted, edits>>

-----------------------------------------------------------------------------
(* Other requests. *)
Edit ==
  /\ edits < MaxEdits /\ edits' = edits + 1 /\ changed' = TRUE
  /\ UNCHANGED <<kind, max_results, server, token, seen>>

Toggle(i, S) == IF i \in S THEN S \ {i} ELSE S \cup {i}

SetPermission(i) ==
  /\ Edit /\ reads' = Toggle(i, reads) /\ could' = could \cup reads'
  /\ UNCHANGED <<catalogue, reaches, shifted>>

SetWorkspacePermission(i) ==
  /\ Edit /\ reaches' = Toggle(i, reaches)
  /\ UNCHANGED <<catalogue, reads, could, shifted>>

(* New items come first or last, as the order of the search has it. *)
Create(i) ==
  /\ Edit /\ i \notin Items(catalogue) /\ i \notin Items(seen \o page) /\ shifted' = TRUE
  /\ catalogue' \in {<<i>> \o catalogue, Append(catalogue, i)}
  /\ UNCHANGED <<reads, reaches, could>>

Delete(i) ==
  /\ Edit /\ i \in Items(catalogue) /\ shifted' = TRUE
  /\ catalogue' = Kept(catalogue, Items(catalogue) \ {i})
  /\ UNCHANGED <<reads, reaches, could>>

Handler == filter_page \/ refill \/ refill_logged \/ fetch_all \/ SendPage
OtherRequests == \E i \in Item : SetPermission(i) \/ SetWorkspacePermission(i) \/ Create(i) \/ Delete(i)
SearchNext == Search \/ Handler \/ OtherRequests

(* The handler is a loop in one thread, and MLflow's stores answer. *)
HandlerRuns == WF_searchVars(Handler)
SearchSpec == SearchInit /\ [][SearchNext]_searchVars /\ HandlerRuns

-----------------------------------------------------------------------------
Wanted == Kept(catalogue, IF kind = "all" THEN reads ELSE reads \cap reaches)

(* A client that follows the tokens while nothing changes is shown exactly *)
(* the items it may read, in MLflow's order, whatever the page size and    *)
(* wherever the unreadable items lie.                                      *)
QuietSearchIsComplete == (pc = "idle" /\ token = None /\ ~changed) => seen = Wanted

(* Permissions may change between pages and the list still keeps its       *)
(* order and repeats nothing; only a shift of MLflow's list repeats items. *)
OrderKeptUnlessShifted ==
  ~shifted => \A j, k \in 1 .. Len(seen) :
    j < k => \E a, b \in 1 .. Len(catalogue) : a < b /\ catalogue[a] = seen[j] /\ catalogue[b] = seen[k]

(* What is shown was readable at some instant of the request. *)
ShownWereReadable == pc = "idle" => Items(page) \subseteq could

(* Every search is answered. *)
SearchesAreAnswered == pc # "idle" ~> pc = "idle"

=============================================================================
