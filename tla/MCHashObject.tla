----------------------------- MODULE MCHashObject -----------------------------
EXTENDS HashObject
CONSTANTS a, b, s, c
MCKeys == {a, b, s, c}
MCHashOf == <<0, 16>>
MCIdOf == (a :> 1) @@ (b :> 3) @@ (s :> 5) @@ (c :> 9)
MCCopyOf == s :> c
MCMutable == {a}
MCFirstContent == (a :> 1) @@ (b :> 1) @@ (s :> 2) @@ (c :> 2)
=============================================================================
