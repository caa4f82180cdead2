---------------------------- MODULE MCDerivations ----------------------------
(* An instance of Derivations for TLC: bytes are small numbers, so that a  *)
(* length may be mistaken for data.                                        *)
EXTENDS Derivations

MCFixed == {<<1, 2>>, <<2, 1>>}
MCText == {<<1>>, <<1, 1>>}
MCEpoch == {<<0, 0>>}
=============================================================================
