SPECIFICATION Spec
CONSTANTS
  d1 = d1
  d2 = d2
  d3 = d3
  x1 = x1
  Deploys = {d1, d2, d3}
  Deactivations = {x1}
  Databases = {"SQLite", "PostgreSQL"}
  Environment = {"fail"}
  NoDeployment = NoDeployment
SYMMETRY DeploySymmetry
PROPERTIES SoloRequestDecides ServiceNeverDrops
