--------------------------- MODULE MCCatalogRefresh ---------------------------
EXTENDS CatalogRefresh

CONSTANTS o1, o2

MCOsOrder == <<o1, o2>>
=============================================================================
