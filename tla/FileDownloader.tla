--------------------------- MODULE FileDownloader ---------------------------
(***************************************************************************)
(* internal/onprem/downloader.go: the download directory.  What a file     *)
(* holds is the URL whose archive it is a complete copy of, "partial" for  *)
(* anything else (an unfinished, overwritten or interleaved copy, the body *)
(* of an error page), or "absent".                                         *)
(***************************************************************************)
CONSTANTS URLs,      \* the locations of archives
          FileNames, \* names of files in the download directory
          FileName   \* URL -> the last segment of its path

ASSUME DownloaderAssumption ==
    /\ FileName \in [URLs -> FileNames]
    /\ {"absent", "partial"} \cap URLs = {}

VARIABLES directory,   \* file name -> what the file holds
          downloader   \* "open", or "closed" once Close has removed the directory

downloaderVars == <<directory, downloader>>

EmptyDirectory == [f \in FileNames |-> "absent"]

DownloaderTypeOK ==
    /\ directory \in [FileNames -> URLs \cup {"absent", "partial"}]
    /\ downloader \in {"open", "closed"}

DownloaderInit == directory = EmptyDirectory /\ downloader = "open"

(* os.Create truncates a file that is there. *)
Create(url) ==
    /\ directory' = [directory EXCEPT ![FileName[url]] = "partial"]
    /\ UNCHANGED downloader

(* io.Copy has written everything it received.  A file that was removed in *)
(* the meantime stays removed.                                             *)
Copy(url, intact) ==
    /\ directory' = [directory EXCEPT ![FileName[url]] =
                        IF @ = "absent" THEN "absent" ELSE IF intact THEN url ELSE "partial"]
    /\ UNCHANGED downloader

(* Close: os.RemoveAll of the directory. *)
RemoveAll ==
    /\ directory' = EmptyDirectory
    /\ downloader' = "closed"

(* A new process finds the files of the old one, or an empty directory     *)
(* when it runs in a new pod.                                              *)
DownloaderRestart ==
    /\ directory' \in {directory, EmptyDirectory}
    /\ downloader' = "open"
=============================================================================
