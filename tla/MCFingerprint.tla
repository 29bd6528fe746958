----------------------------- MODULE MCFingerprint -----------------------------
(* Fingerprint on a small vocabulary: see README, "Bounds".  Arabic words are *)
(* written in Latin letters with a leading "ar ".                             *)
EXTENDS Fingerprint, TLC

MCNames  == {<<"acme">>, <<"acme", "technologies">>, <<"acme", "data">>, <<"company", "of", "egypt">>,
             <<"coca", "-", "cola">>, <<"coca">>, <<"studio", "-", "737">>, <<"ar halan">>, <<"kk">>}
MCForms  == {<<>>, <<"inc">>, <<"S.A.E.">>, <<"co", "ltd">>}
MCGlosses == {<<"ar acme">>}
MCTitles == {<<"engineer">>, <<"data", "engineer">>, <<"senior", "data", "|", "engineer">>,
             <<"id", "verification">>, <<"data", "737">>, <<"dream", "job">>}
MCTags   == {<<>>, <<"id", "9981">>, <<"12345", "job", "id", "9981">>, <<"req", "12345">>}
MCPlaces == {[country |-> "EG", cities |-> <<"cairo", "c">>], [country |-> "EG", cities |-> <<"ar qahira">>],
             [country |-> "US", cities |-> <<"san francisco", "ca">>],
             [country |-> "NONE", cities |-> <<"somewhere">>]}
MCNoise  == {<<>>, <<"11511">>}
MCJoined  == "S.A.E." :> "sae"
MCNAME_TO_ISO2 == "egypt" :> "EG" @@ "eg" :> "EG" @@ "ca" :> "CA" @@ "canada" :> "CA" @@ "us" :> "US"
                    @@ "united states" :> "US"
MCARABIC_COUNTRY_ALIASES == "ar misr" :> "EG"
===============================================================================
