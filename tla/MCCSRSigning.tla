----------------------------- MODULE MCCSRSigning -----------------------------
(***************************************************************************)
(* CSRSigning for all kinds of keys and all algorithms.                    *)
(***************************************************************************)
EXTENDS CSRSigning

AllKeys == {"RSA", "P224", "P256", "P384", "P521", "otherCurve", "Ed25519",
            "DSA"}

AllAlgorithms ==
    {"default", "MD2WithRSA", "MD5WithRSA", "SHA1WithRSA", "SHA256WithRSA",
     "SHA384WithRSA", "SHA512WithRSA", "SHA256WithRSAPSS",
     "SHA384WithRSAPSS", "SHA512WithRSAPSS", "DSAWithSHA1", "DSAWithSHA256",
     "ECDSAWithSHA1", "ECDSAWithSHA256", "ECDSAWithSHA384",
     "ECDSAWithSHA512", "PureEd25519", "unknown"}

Attribute(id) == [id |-> id, string |-> FALSE, text |-> NoPassword]
Extensions    == Attribute("other")
OtherPassword == Attribute("challengePassword")

SomeTemplates ==
    {<<>>, <<Extensions>>, <<OtherPassword, Extensions>>}

=============================================================================
