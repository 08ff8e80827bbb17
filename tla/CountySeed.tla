----------------------------- MODULE CountySeed -----------------------------
(***************************************************************************)
(* The seeded county (sandtable/seed_data.py): the tables a new deployment *)
(* starts from.  Rows are tuples; identifiers are their numbers (N04 is 4, *)
(* V-010 is 10), None is 0, distances are hundredths of a kilometre and    *)
(* weights tenths of a ton.  Names, plates, coordinates and road levels,   *)
(* which no code modelled here reads, are left out.                        *)
(***************************************************************************)
EXTENDS Integers

\* <<station, road node>>
STATIONS == {
    <<1, 1>>, <<2, 6>>, <<3, 11>>, <<4, 12>>, <<5, 13>>, <<6, 14>>, <<7, 15>>, <<8, 17>>,
    <<9, 19>>, <<10, 20>>, <<11, 21>>, <<12, 22>>}

ROAD_NODES == 1..22

\* <<edge, from, to, distance, base minutes, risk, weight limit>>
NationalRoads == {
    <<1, 1, 2, 150, 3, "LOW", 80>>, <<2, 2, 3, 150, 3, "LOW", 80>>, <<3, 3, 4, 200, 4, "MEDIUM", 60>>,
    <<4, 4, 5, 250, 5, "HIGH", 60>>, <<5, 5, 6, 250, 5, "LOW", 50>>, <<6, 2, 7, 200, 4, "LOW", 100>>,
    <<7, 7, 8, 400, 7, "LOW", 200>>, <<8, 8, 9, 320, 6, "LOW", 200>>, <<9, 9, 6, 250, 4, "LOW", 80>>}

NorthernRoads == {
    <<10, 1, 10, 310, 6, "MEDIUM", 80>>, <<11, 10, 11, 550, 11, "MEDIUM", 50>>, <<12, 10, 16, 200, 4, "LOW", 70>>,
    <<13, 16, 12, 400, 8, "LOW", 50>>, <<14, 12, 1, 360, 7, "LOW", 50>>, <<15, 8, 13, 450, 9, "MEDIUM", 35>>,
    <<16, 13, 9, 520, 10, "MEDIUM", 35>>, <<17, 6, 17, 350, 7, "LOW", 50>>, <<18, 17, 18, 400, 8, "LOW", 35>>}

RuralRoads == {
    <<19, 18, 6, 280, 6, "LOW", 35>>, <<20, 15, 4, 280, 6, "LOW", 50>>, <<21, 15, 8, 300, 6, "LOW", 80>>,
    <<22, 14, 1, 110, 3, "LOW", 50>>, <<23, 14, 7, 250, 5, "LOW", 80>>, <<24, 11, 17, 800, 15, "HIGH", 20>>,
    <<25, 5, 17, 310, 6, "LOW", 50>>, <<26, 9, 18, 330, 6, "LOW", 80>>, <<27, 19, 20, 560, 15, "LOW", 120>>}

LiveMapRoads == {
    <<28, 20, 21, 330, 6, "LOW", 80>>, <<29, 21, 15, 520, 9, "LOW", 60>>, <<30, 19, 1, 70, 2, "LOW", 120>>,
    <<31, 15, 19, 360, 6, "LOW", 60>>, <<32, 3, 22, 110, 7, "LOW", 60>>, <<33, 22, 20, 310, 9, "LOW", 60>>,
    <<34, 20, 5, 220, 7, "LOW", 80>>, <<35, 9, 21, 120, 3, "LOW", 100>>, <<36, 21, 18, 330, 6, "LOW", 80>>}

ROAD_EDGES == NationalRoads \cup NorthernRoads \cup RuralRoads \cup LiveMapRoads

\* <<driver, licence, status, vehicle, node>>
DRIVERS == {
    <<1, "C1", "BUSY", 1, 4>>, <<2, "C1", "ON_DUTY", 2, 1>>, <<3, "C1", "ON_DUTY", 5, 15>>,
    <<4, "B2", "BUSY", 4, 6>>, <<5, "C1", "OFF_DUTY", 6, 14>>, <<6, "C1", "ON_DUTY", 7, 12>>,
    <<7, "B2", "ON_DUTY", 8, 3>>, <<8, "C1", "BUSY", 9, 11>>, <<9, "B2", "ON_DUTY", 10, 1>>,
    <<10, "C1", "ON_DUTY", 12, 6>>, <<11, "C1", "ON_DUTY", 3, 15>>, <<12, "C1", "ON_DUTY", 11, 14>>}

\* <<vehicle, kg it carries at most, kg on board, weight, cargo, status, node, driver>>
CrewedVehicles == {
    <<1, 1500, 700, 28, "COLD_CHAIN", "IN_TRANSIT", 4, 1>>, <<2, 1200, 200, 22, "GENERAL", "AVAILABLE", 1, 2>>,
    <<3, 1000, 600, 20, "GENERAL", "AVAILABLE", 15, 11>>, <<4, 3000, 1200, 55, "FARM_SUPPLY", "IN_TRANSIT", 6, 4>>,
    <<5, 1000, 100, 24, "COLD_CHAIN", "AVAILABLE", 15, 3>>, <<6, 900, 0, 18, "GENERAL", "MAINTENANCE", 14, 5>>,
    <<7, 300, 50, 8, "GENERAL", "AVAILABLE", 12, 6>>, <<8, 2000, 700, 45, "GENERAL", "AVAILABLE", 3, 7>>,
    <<9, 1600, 500, 30, "COLD_CHAIN", "IN_TRANSIT", 11, 8>>, <<10, 4000, 1000, 65, "FARM_SUPPLY", "AVAILABLE", 1, 9>>,
    <<11, 1800, 1300, 32, "COLD_CHAIN", "AVAILABLE", 14, 12>>, <<12, 1000, 300, 20, "GENERAL", "AVAILABLE", 6, 10>>}

VisualVehicles == {
    <<13, 1200, 260, 22, "GENERAL", "AVAILABLE", 7, 0>>, <<14, 2600, 980, 48, "FARM_SUPPLY", "IN_TRANSIT", 8, 0>>,
    <<15, 1000, 120, 23, "GENERAL", "AVAILABLE", 15, 0>>, <<16, 900, 0, 19, "GENERAL", "AVAILABLE", 10, 0>>,
    <<17, 1100, 430, 21, "GENERAL", "IN_TRANSIT", 9, 0>>, <<18, 2200, 0, 42, "GENERAL", "MAINTENANCE", 11, 0>>,
    <<19, 1500, 300, 29, "COLD_CHAIN", "AVAILABLE", 8, 0>>, <<20, 1200, 560, 23, "GENERAL", "IN_TRANSIT", 8, 0>>}

VEHICLES == CrewedVehicles \cup VisualVehicles

\* <<order, cargo, kg, origin station, destination station, vehicle, status>>
ORDERS == {
    <<1, "COLD_CHAIN", 700, 1, 2, 1, "IN_TRANSIT">>, <<2, "FARM_SUPPLY", 1200, 1, 3, 10, "PENDING">>, <<3, "COLD_CHAIN", 500, 3, 1, 9, "IN_TRANSIT">>,
    <<4, "GENERAL", 300, 1, 8, 12, "PENDING">>, <<5, "GENERAL", 850, 1, 2, 8, "IN_TRANSIT">>, <<6, "COLD_CHAIN", 450, 6, 3, 11, "PENDING">>,
    <<7, "FARM_SUPPLY", 1600, 4, 1, 10, "PENDING">>, <<8, "GENERAL", 260, 8, 5, 12, "PENDING">>, <<9, "GENERAL", 900, 1, 7, 4, "IN_TRANSIT">>,
    <<10, "COLD_CHAIN", 600, 3, 2, 9, "PENDING">>, <<11, "GENERAL", 400, 1, 4, 2, "PENDING">>, <<12, "COLD_CHAIN", 300, 6, 2, 5, "PENDING">>}
=============================================================================
