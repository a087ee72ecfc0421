------------------------------ MODULE MCBackend ------------------------------
(***************************************************************************)
(* knitd_backend and its clients for TLC: the keychain, uploads, imports   *)
(* and downloads, the streams they move and the trees they are read from.  *)
(* These share no state, so each behaviour is one of one part of them, and *)
(* the rest stays as it was: TLC sees the sum of their states and not the  *)
(* product.                                                                *)
(***************************************************************************)
EXTENDS Keychain, Uploads, Transfer, TreeWalk, TLC

CONSTANTS u, i, r  \* an upload, an import and who reads the upload

\* Values of constants that a configuration cannot write down.
OneSource == r :> u

VARIABLES
    part   \* what moves

\* "download" is an upload and who reads it, "import" an upload beside an import.
Part == {"keychain", "download", "import", "stream", "tree"}

ASSUME BackendAssumption ==
    /\ u \in Upload /\ i \in Import /\ r \in Reader
    /\ UploadsAssumption /\ TransferAssumption /\ TreeWalkAssumption

PartInit ==
    /\ part \in Part
    /\ KeychainInit /\ Init /\ TransferInit /\ (part # "stream" => kind = "save")
    /\ IF part = "tree" THEN TreeWalkInit
       ELSE tree = <<>> /\ follow = FALSE /\ frames = <<>> /\ files = <<>> /\ walked = "not begun"

KeychainMoves == part = "keychain" /\ KeychainNext /\ UNCHANGED <<part, vars, transferVars, treeVars>>

AgentsMove ==
    /\ \/ part = "download" /\ Next /\ status'[i] = "none" /\ u \notin late'
       \/ part = "import" /\ Next /\ pc'[r] = "idle"
    /\ UNCHANGED <<part, keychainVars, transferVars, treeVars>>

StreamMoves == part = "stream" /\ TransferNext /\ UNCHANGED <<part, keychainVars, vars, treeVars>>

TreeMoves == part = "tree" /\ TreeWalkNext /\ UNCHANGED <<part, keychainVars, vars, transferVars>>

PartNext == KeychainMoves \/ AgentsMove \/ StreamMoves \/ TreeMoves
PartSpec == PartInit /\ [][PartNext]_<<part, keychainVars, vars, transferVars, treeVars>>
=============================================================================
