------------------------------- MODULE MCFetch -------------------------------
(* A site with a subdomain the block list names, a second site, a tracker that
   both embed, and a local file. *)
EXTENDS Fetch, TLC

CONSTANTS news, metrics, shop, tracker, nowhere, N, S, T, F

MCHosts  == {news, metrics, shop, tracker}
MCSiteOf == (news :> N) @@ (metrics :> N) @@ (shop :> S) @@ (tracker :> T) @@ (nowhere :> F)
U(host, path, query, port, tracked) ==
  [host |-> host, path |-> path, query |-> query, port |-> port, tracked |-> tracked]
MCUrls   == {U(news, "/", "", TRUE, FALSE), U(shop, "/", "", FALSE, TRUE),
             U(tracker, "/t", "", FALSE, FALSE), U(tracker, "/lib", "ad", FALSE, FALSE),
             U(nowhere, "/f", "", FALSE, FALSE)}
MCSubUrls == MCUrls \cup {U(metrics, "/m", "", FALSE, FALSE)}
MCOpen   == [p \in {N, S, T, F} |-> IF p = S THEN U(shop, "/", "", FALSE, FALSE) ELSE None]
MCListed == {<<tracker, <<"/t", "">>>>, <<tracker, <<"/lib", "ad">>>>, <<metrics, <<"/m", "">>>>}
=============================================================================
