------------------------------ MODULE MCSeries ------------------------------
(* A plain folder with two books and a Calibre library with one, and three *)
(* names, of which two moves can make a shelf that holds both folders.     *)
EXTENDS Series, TLC

CONSTANTS f, g, f1, f2, g1, n1, n2, n3, everyone, reader

MCFolderOf == (f1 :> f) @@ (f2 :> f) @@ (g1 :> g)
MCNames == Permutations(Names)
=============================================================================
