----------------------------- MODULE FramingMC -----------------------------
(* Small instances of Framing for TLC. *)
EXTENDS Framing

(* Every payload of up to three bytes: an empty one, ones that look like a    *)
(* prefix or end in a newline, and the longest the prefix can count.          *)
MCPayloads == UNION {[1..n -> 0..(Base - 1)] : n \in 0..3}
=============================================================================
