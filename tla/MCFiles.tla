------------------------------- MODULE MCFiles --------------------------------
(***************************************************************************)
(* Uploads (module FileUpload) and downloads (FileDownload) for TLC, with  *)
(* files small enough: an empty one, one chunk, and two chunks.  The two   *)
(* share no state: the server's Maps are apart, frames go up for the one   *)
(* and down for the other, and a stored file does not change.  A behaviour *)
(* has the steps of one of them.                                           *)
(***************************************************************************)
EXTENDS FileUpload, FileDownload, TLC

VARIABLE part

Symmetry == Permutations(Uploads) \cup Permutations(Clients)

MCFiles == {<<>>, <<"a">>, <<"a", "b">>}

FilesInit ==
    /\ part \in {"upload", "download"} /\ Init /\ DownloadInit
    /\ part = "upload" => file = [d \in Downloads |-> <<>>]

FilesNext ==
    \/ part = "upload" /\ Next /\ UNCHANGED <<part, downloadVars>>
    \/ part = "download" /\ DownloadNext /\ UNCHANGED <<part, vars>>

FilesSpec == FilesInit /\ [][FilesNext]_<<part, vars, downloadVars>>
=============================================================================
