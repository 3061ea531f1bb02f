------------------------------ MODULE MCSessions ------------------------------
(* Sessions for TLC: model values for the requests and the keys, and the   *)
(* configurations to start the server with.                                *)
EXTENDS Sessions, TLC

CONSTANTS r1, r2, r3, user, cart

MCReqs == {r1, r2, r3}
MCKeys == {user, cart}
MCIds  == 1..3
MCSymmetry == Permutations(MCReqs)

MCConf(strategy, transport, rolling, saveUninitialized) ==
  [strategy |-> strategy, transport |-> transport, rolling |-> rolling,
   saveUninitialized |-> saveUninitialized]

MCConfs == {MCConf("ServerStore", "Cookie", TRUE, FALSE),
            MCConf("ServerStore", "Cookie", FALSE, TRUE),
            MCConf("SignedCookie", "Cookie", TRUE, FALSE),
            MCConf("JWT", "Both", TRUE, FALSE)}
=============================================================================
