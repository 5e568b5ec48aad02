--------------------------- MODULE MCServerModels ---------------------------
(* Two models, A in the presets and B downloadable and editable on disk,   *)
(* and three HTTP threads that each take one of a few requests, chosen so  *)
(* that loads, evictions, removals, downloads and reloads of the same      *)
(* model overlap.                                                          *)
EXTENDS ServerModels

CONSTANTS A, B, v1, c1, c2, c3
Disk == [n \in Names |-> IF n = A THEN v1 ELSE NONE]

R(o, n) == [op |-> o, name |-> n]
Reqs == [c \in Clients |->
    CASE c = c1 -> {R("reload", A), R("download", B)}
      [] c = c2 -> {R("ready", B), R("download", B), R("remove", A)}
      [] c = c3 -> {R("unload", B), R("remove", B), R("load", A)}]
=============================================================================
