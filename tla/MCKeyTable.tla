----------------------------- MODULE MCKeyTable -----------------------------
(* KeyTable with fewer slots than keys, so that the table overflows, and    *)
(* the lists the scripts use: one key, two keys, padding, the same key twice.*)
EXTENDS KeyTable

CONSTANTS right, left, z, a

MCKey == {right, left, z, a}
MCLists == {<<right>>, <<left>>, <<right, left>>, <<left, None, right>>,
            <<right, None>>, <<left, left>>}
=============================================================================
