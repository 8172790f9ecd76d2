---------------------------- MODULE MCProxyCache ----------------------------
(***************************************************************************)
(* Instances of ProxyCache for TLC.                                        *)
(***************************************************************************)
EXTENDS ProxyCache, TLC

CONSTANTS r1, r2, r3, n1, n2

(* Two requests of one server process and one of another.                  *)
TwoAndOne == (r1 :> n1) @@ (r2 :> n1) @@ (r3 :> n2)

(* The kinds of r1, r2 and r3.                                             *)
Mix(k1, k2, k3) == (r1 :> k1) @@ (r2 :> k2) @@ (r3 :> k3)

Mixes == {Mix("fetch", "fetch", "redirect"), Mix("fetch", "detect", "stream"),
          Mix("stream", "redirect", "invalidate")}

ReleaseFetches == {Mix("detect", "detect", "detect")}

TwoWriters == {Mix("stream", "redirect", "fetch")}
=============================================================================
