-------------------------- MODULE MCSymbolRegistry --------------------------
(* Instances of SymbolRegistry for TLC.                                    *)
EXTENDS SymbolRegistry, TLC

CONSTANTS a, b, c, w1, w2

(* Workers are interchangeable, and so are symbols.                        *)
Perms == Permutations(Symbols) \union Permutations(Workers)

=============================================================================
