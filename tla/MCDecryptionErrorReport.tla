------------------------ MODULE MCDecryptionErrorReport ------------------------
(***************************************************************************)
(* DecryptionErrorReport with small tables, over elements whose header is  *)
(* bad or whose walk is cut short, that fill a slot or overflow it.        *)
(***************************************************************************)
EXTENDS DecryptionErrorReport

MCElements ==
  [valid : {TRUE}, inside : {"all"}, num : {1, 2}, entries : 0 .. MaxEntries + 1,
   torn : BOOLEAN]
    \cup [valid : {TRUE}, inside : {"less", "header"}, num : {1}, entries : {1},
          torn : {FALSE}]
    \cup [valid : {FALSE}, inside : {"all"}, num : {0}, entries : {1}, torn : {FALSE}]
=============================================================================
