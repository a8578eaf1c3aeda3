---------------------------- MODULE MCYggdrasil ----------------------------
EXTENDS Yggdrasil
CONSTANTS land, walker, c1, c2, c3
MCTable == land :> "artos" @@ walker :> "superfriends"
             @@ [c \in {c1, c2, c3} |-> "creas"]
=============================================================================
