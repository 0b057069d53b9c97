---------------------------- MODULE RecoveryMC -----------------------------
(* The requests of RecoverySystem.java, the messages of a factory tool, and    *)
(* two kinds of image.                                                        *)
EXTENDS Recovery

AllOptions == RequestOptions

\* installPackage and installPackages, rebootWipeUserData, rebootWipeCache.
SystemRequests ==
    { {"update_rkimage"}, {"update_boards"}, {"update_rkimage", "update_boards"},
      {"wipe_data"}, {"wipe_cache"} }
\* An image on the external card, and a package.
CardRequests == { {"update_rkimage", "external_sd"}, {"update_package"} }
ImageRequests == { {"update_rkimage"} }

FactoryMessages == { {"factory_mode"}, {"factory_mode", "small"}, {"wipe_all"} }
NoMessages == {}

\* An image with everything, and one for the system and recovery alone.
FullImage == {Items}
TwoImages == {Items, {"system", "recovery", "bootloader"}}

AllRequests == SystemRequests \cup CardRequests

NoCard   == {"none"}
AllCards == {"none", "tag", "sdboot"}

\* Two requests, or one and a pick from the menu, without a card and with the full image;
\* one request with a card or the small image.
Scenario ==
    asks + picks =< (IF card = "none" /\ image = Items THEN 2 ELSE 1)

MCSpec == Init /\ [][Next /\ Scenario']_vars /\ RunsOn

=============================================================================
