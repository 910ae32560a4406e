--------------------------- MODULE MCRendererPool ---------------------------
(* Small instances of RendererPool. *)
EXTENDS RendererPool, TLC

CONSTANTS s1, s2, u1, u2, u3

\* Two sites with a page each.
TwoSites  == {s1, s2}
TwoUrls   == {u1, u3}
TwoSiteOf == (u1 :> s1) @@ (u3 :> s2)

\* One site with two pages, and one site with a single page.
OneSite     == {s1}
SameSiteUrls   == {u1, u2}
SameSiteOf  == (u1 :> s1) @@ (u2 :> s1)
OneUrl      == {u1}
OneSiteOf   == (u1 :> s1)
=============================================================================
