-------------------------- MODULE MCProfileArchives --------------------------
(* A small instance of ProfileArchives for TLC: see README.md for the bounds. *)
EXTENDS ProfileArchives

CONSTANTS a1, con, f1, plain, dense, big, bad

MCSize == [c \in {plain, dense, big, bad} |-> CASE c = dense -> 3 [] c = big -> 4 [] OTHER -> 1]
MCPacked == [c \in {plain, dense, big, bad} |-> IF c \in {plain, big} THEN 2 ELSE 1]
MCReceived == {
  <<Entry(Manifest, plain), Entry(Setting(a1, f1), plain)>>,
  <<Entry(Manifest, plain), Entry(Setting(a1, f1), bad)>>,
  <<Entry(Manifest, bad), Entry(Setting(a1, f1), plain)>>,
  <<Entry(Manifest, plain), Entry(Setting(a1, f1), big), Entry(Setting(a1, f1), bad)>>,
  <<Entry(Manifest, plain), Entry(Other, plain)>>,
  <<Entry(Manifest, plain), Entry(Setting(con, f1), plain)>>,
  <<Entry(Setting(a1, f1), plain)>>}
=============================================================================
