---- MODULE MCStationForm ----
\* Two call signs; the second has certificates for two entities, one of them
\* expired.  Entity 6 has two states with their own zones, one with counties, the other
\* with a pair of zones that the entity's map does not have; entity 7 has a zone map and
\* no second page.
EXTENDS StationForm

MCCerts == <<[call |-> 101, dxcc |-> 6, expired |-> FALSE],
             [call |-> 102, dxcc |-> 7, expired |-> FALSE],
             [call |-> 102, dxcc |-> 6, expired |-> TRUE]>>
MCEntities == <<7, 6>>
MCZonesOf == 6 :> {<<1, 1>>, <<2, 1>>, <<2, 3>>} @@ 7 :> {<<3, 3>>, <<1, 2>>}
MCSubs == 6 :> <<201, 202>>
MCSubZones == 201 :> {<<1, 1>>, <<2, 1>>} @@ 202 :> {<<2, 3>>, <<1, 3>>}
MCCounties == 201 :> <<301, 302>>
MCMustPick == {6}
MCPreset == 101 :> [ITUZ |-> 2, CQZ |-> 3, PAS |-> 201, SAS |-> 302]
====
