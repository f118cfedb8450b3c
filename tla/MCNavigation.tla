---------------------------- MODULE MCNavigation ----------------------------
EXTENDS Navigation, TLC

CONSTANTS site, intranet, file, escaped, garbled

MCUrls == {site, intranet, file, escaped, garbled}
MCSchemeOf == [u \in MCUrls |-> IF u = file THEN "other" ELSE "web"]
MCHostOf ==
  [u \in MCUrls |-> CASE u = intranet -> "private"
                      [] u = file     -> "missing"
                      [] OTHER        -> "name"]
MCLandsOn == [u \in MCUrls |-> IF u = intranet THEN {site} ELSE {}]

\* `escaped` names the private host in a spelling that is none to urlsplit; of
\* `garbled` Chromium makes no URL.
MCCanonical ==
  [u \in MCUrls |-> CASE u = escaped -> intranet
                      [] u = garbled -> None
                      [] OTHER       -> u]
=============================================================================
