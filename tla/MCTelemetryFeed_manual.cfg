SPECIFICATION Spec
CONSTANTS
  None = None
  Meter = Meter
  Cell = Cell
  Spare = Spare
  Solar = Solar
  Supplier = Supplier
  Manual = Manual
  Low = Low
  High = High
  Rest = Rest
  Fixed = Fixed
  Entities <- MCEntities
  EntityStates <- MCEntityStates
  Suppliers = {Supplier}
  Preset <- MCPreset
  Choices <- MCChoices
  Defaults <- MCDefaults
  MaxSaves = 1
PROPERTY ManualShowsStored
