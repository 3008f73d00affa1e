-------------------------- MODULE MCVersionChecker --------------------------
(* VersionChecker with a CalVer beta and its stable version to be released,*)
(* and images of an older version, written short, of the beta and of the   *)
(* stable version, with either channel, with another one and with none.    *)
EXTENDS VersionChecker, TLC

old  == [core |-> <<1>>, pre |-> "", num |-> 0]
beta == [core |-> <<2, 0, 0>>, pre |-> "b", num |-> 1]
new  == [core |-> <<2, 0, 0>>, pre |-> "", num |-> 0]

Image(v, configured, image, webhook) ==
    [version |-> v, configured |-> configured, image |-> image, webhook |-> webhook]

MCVersions == {beta, new}

MCInstalls == {Image(old, "unset", "junk", TRUE), Image(old, "unset", "beta", TRUE),
               Image(beta, "unset", "", TRUE), Image(beta, "unset", "stable", TRUE),
               Image(beta, "stable", "beta", TRUE), Image(new, "beta", "", FALSE),
               Image(old, "stable", "", FALSE), Image(development, "unset", "", TRUE)}
=============================================================================
