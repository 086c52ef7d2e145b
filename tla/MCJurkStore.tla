---------------------------- MODULE MCJurkStore -------------------------------
(* A repository with a package whose folder has another name, preloaded in  *)
(* the image, and one that has to be downloaded from a URL with .jex.       *)
EXTENDS JurkStore

MCApps == {"calc", "Calculator", "fetch"}
MCRepo == <<[id |-> "calc", name |-> "Calculator", url |-> "bk"],
            [id |-> "fetch", name |-> "fetch", url |-> "jex"]>>
MCLocal == {<<"calc", "Calculator">>}
==============================================================================
