---------------------------- MODULE MCPaperlessFetch ----------------------------
(* A small instance of PaperlessFetch: two of the contents have one MD5. *)
EXTENDS PaperlessFetch

CONSTANTS c1, c2, c3

MCSha256(c) == <<"sha256", c>>
MCMd5(c) == <<"md5", IF c = c2 THEN c1 ELSE c>>
================================================================================
