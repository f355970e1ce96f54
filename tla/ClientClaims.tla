----------------------------- MODULE ClientClaims -----------------------------
(***************************************************************************)
(* What comments of the client say of a superseded search, and the view    *)
(* does not keep once the user has started a second one.                   *)
(***************************************************************************)
EXTENDS SearchClient

\* hooks/useSearchSubscription.ts:237: "Fence stale terminal continuations", so that what
\* ended one search does not end the view of a newer one.  A return to the foreground while
\* the new search is being created re-reads the old one under the new generation: its end
\* is shown as the new search's, which is running.
ShownEndIsOwn ==
  view.phase = "terminal" => server[view.searchId].end = view.screen
=============================================================================
